---- MODULE Spec2Model ----
(***************************************************************************)
(* Batch execution engine of gh_repos_sync: the process registry and its   *)
(* cancellation flag (core/process_control.py), the clone, pull and check  *)
(* operations (core/clone.py, core/pull.py, core/check.py), the parallel   *)
(* orchestrators and the two batch runs of application/execution.py.       *)
(***************************************************************************)
EXTENDS Integers, Sequences, FiniteSets, TLC

\* ---------------------------------------------------------------- bounds
NumTasks == 2
MaxWorkers == 2

Tasks == 1..NumTasks

\* ------------------------------------------------------------- variables
VARIABLES
    flow,               \* which batch run was launched: "clone_and_check" | "pull"
    parallel_tasks,     \* the run's `tasks` argument: max_workers of the pool
    ident,              \* task index -> value of the task dict (equal dicts share a value)
    dir,                \* state of the directory group_folder/repo_name of each dict value
    run_pc,             \* position of run_clone_and_check / run_pull_updates
    shutdown_event,     \* _shutdown_event
    active_processes,   \* _active_processes
    op_pc,              \* position of the operation a pool worker runs for each task
    proc_kind,          \* which subprocess the task's operation started last
    proc_state,         \* state of that subprocess
    future,             \* result of the future submitted for each task
    tasks,              \* the task list handed to the running orchestrator
    orch_pc,            \* position of the orchestrator
    success_count,      \* orchestrator local
    fail_count,         \* orchestrator local
    failed_tasks,       \* orchestrator local
    yielded,            \* futures as_completed has already yielded
    progress_calls,     \* arguments of every progress_cb invocation of the orchestrator
    run_success_count,  \* success_count of the batch run
    run_fail_count,     \* fail_count of the batch run
    run_failed_tasks,   \* failed_tasks of the batch run
    check_failed_tasks, \* check_failed_tasks of run_clone_and_check
    result,             \* the result dict the batch run returns
    sd_pc,              \* position of the request_shutdown() call
    sd_processes,       \* the local list `processes` of terminate_all_tracked_processes
    sd_at_call,         \* history: tracked set when request_shutdown() was called
    sd_flag_at_return,  \* history: the flag when request_shutdown() returned
    woke,               \* history: every return of a subprocess wait, with the flag
                        \* and the exit state found and what the operation reported
    spawned_clone,      \* history: the operation started a clone subprocess
    removed_dir,        \* history: the operation deleted the target directory
    ic_valid,           \* history: the incremental check of clone_repo was valid
    clone_ok,           \* history: tasks tallied as cloned by the clone phase
    config_file,        \* the run's config_file argument: the path of the manifest
    file,               \* path -> what the file at that path holds
    fn_pc,              \* position of the function applied to an input
    fn_in,              \* the input a function is applied to
    fn_out              \* what the function returned

vars == <<flow, parallel_tasks, ident, dir, run_pc, shutdown_event, active_processes, op_pc,
          proc_kind, proc_state, future, tasks, orch_pc, success_count,
          fail_count, failed_tasks, yielded, progress_calls, run_success_count,
          run_fail_count, run_failed_tasks, check_failed_tasks, result, sd_pc,
          sd_processes, sd_at_call, sd_flag_at_return, woke, spawned_clone,
          removed_dir, ic_valid, clone_ok, config_file, file, fn_pc, fn_in,
          fn_out>>

registry_vars == <<shutdown_event, active_processes>>
op_vars == <<op_pc, proc_kind, proc_state, future>>
orch_vars == <<tasks, orch_pc, success_count, fail_count, failed_tasks, yielded,
               progress_calls>>
run_vars == <<run_pc, run_success_count, run_fail_count, run_failed_tasks,
             check_failed_tasks, result, file>>
sd_vars == <<sd_pc, sd_processes, sd_at_call, sd_flag_at_return>>
hist_vars == <<woke, spawned_clone, removed_dir, ic_valid, clone_ok>>
input_vars == <<flow, parallel_tasks, ident, config_file>>
fn_vars == <<fn_pc, fn_in, fn_out>>

\* --------------------------------------------------------------- helpers
Range(s) == {s[i] : i \in 1..Len(s)}

RECURSIVE SelectTasks(_, _)
\* [task for task in s if Keep(task)], with Keep given as a set of list positions
SelectTasks(s, keep) ==
    IF s = <<>> THEN <<>>
    ELSE LET rest == SelectTasks(Tail(s), {i - 1 : i \in keep \ {1}})
         IN  IF 1 \in keep THEN <<Head(s)>> \o rest ELSE rest

\* what can be at target_folder/repo_name: nothing, a regular file, a directory
\* without .git, a repository, a clone in progress or left unfinished, a
\* repository the run has cloned
DirStates == {"absent", "file", "nogit", "git", "partial", "cloned"}

\* target_path.exists()
DirExists(d) == d # "absent"

\* target_path.is_dir()
IsDir(d) == d \notin {"absent", "file"}

\* (target_path / ".git").exists()
HasGitMarker(d) == d \in {"git", "partial", "cloned"}

\* process.poll() is None
Alive(p) == proc_kind[p[1]] = p[2] /\ proc_state[p[1]] = "running"

\* ---------------------------------------------------------- initial state
\* the task lists a manifest can give: every bullet line is one task, so a
\* repository listed twice in a group gives two equal task dicts
TaskLists ==
    {[t \in Tasks |-> t]} \cup
    {[t \in Tasks |-> IF t = 2 THEN 1 ELSE t]}

\* what is on disk before the run
DirLayouts ==
    { [i \in Tasks |-> "git"],
      [i \in Tasks |-> "absent"],
      [i \in Tasks |-> IF i = 1 THEN "nogit" ELSE "git"],
      [i \in Tasks |-> IF i = 1 THEN "git" ELSE "absent"],
      [i \in Tasks |-> IF i = 1 THEN "file" ELSE "absent"] }

\* the two files of a run: the manifest the GUI is configured with and the
\* retry manifest FAILED_REPOS_FILE
CONFIG_FILE == "REPO-GROUPS.md"
FAILED_REPOS_FILE == "failed-repos.txt"
Paths == {CONFIG_FILE, FAILED_REPOS_FILE}

\* what the file at the manifest's path can hold: nothing, a directory, bytes
\* that cannot be read, a text without the owner line, with an empty owner,
\* with an owner but no task, or with an owner and tasks
ManifestKinds ==
    {"absent", "directory", "unreadable", "no_owner", "empty_owner", "no_tasks", "tasks"}

\* no operation, orchestrator, run or request_shutdown() has started
InitEngine ==
    /\ active_processes = {}
    /\ op_pc = [t \in Tasks |-> "idle"]
    /\ proc_kind = [t \in Tasks |-> "none"]
    /\ proc_state = [t \in Tasks |-> "none"]
    /\ future = [t \in Tasks |-> "none"]
    /\ tasks = <<>>
    /\ orch_pc = "idle"
    /\ success_count = 0
    /\ fail_count = 0
    /\ failed_tasks = <<>>
    /\ yielded = {}
    /\ progress_calls = <<>>
    /\ run_success_count = 0
    /\ run_fail_count = 0
    /\ run_failed_tasks = <<>>
    /\ check_failed_tasks = <<>>
    /\ result = [status |-> "none"]
    /\ sd_pc = "idle"
    /\ sd_processes = {}
    /\ sd_at_call = {}
    /\ sd_flag_at_return = FALSE
    /\ woke = {}
    /\ spawned_clone = [t \in Tasks |-> FALSE]
    /\ removed_dir = [t \in Tasks |-> FALSE]
    /\ ic_valid = [t \in Tasks |-> FALSE]
    /\ clone_ok = {}

\* no function is being applied
InitFunctions ==
    /\ fn_pc = "idle"
    /\ fn_in = [fn |-> "none"]
    /\ fn_out = [fn |-> "none"]

\* the task dicts the manifest gives and the directories on disk
InitTasks ==
    /\ ident \in TaskLists
    /\ \E layout \in DirLayouts :
         dir = [i \in Tasks |-> IF \E t \in Tasks : ident[t] = i
                                THEN layout[i] ELSE "absent"]

\* a batch run has been launched from the GUI on the configured manifest,
\* with no retry manifest left by an earlier run
Init ==
    /\ flow \in {"clone_and_check", "pull"}
    /\ parallel_tasks \in 1..MaxWorkers
    /\ InitTasks
    /\ config_file = CONFIG_FILE
    /\ \E kind \in ManifestKinds :
         file = [p \in Paths |-> IF p = CONFIG_FILE THEN kind ELSE "absent"]
    /\ run_pc = "launched"
    /\ shutdown_event \in BOOLEAN
    /\ InitEngine
    /\ InitFunctions

\* ------------------------------------------------------ process registry
\* start_tracked_process, second half: the started subprocess is added to the
\* tracked set under the lock (the Popen call is part of the operation's step)
start_tracked_process(t) ==
    /\ op_pc[t] \in {"spawned", "ic_spawned"}
    /\ active_processes' = active_processes \cup {<<t, proc_kind[t]>>}
    /\ op_pc' = [op_pc EXCEPT ![t] = IF @ = "spawned" THEN "waiting" ELSE "ic_waiting"]
    /\ UNCHANGED <<shutdown_event, proc_kind, proc_state, future, dir>>
    /\ UNCHANGED <<orch_vars, run_vars, sd_vars, hist_vars, input_vars, fn_vars>>

\* a mutation: the process stays in the tracked set
untrack_process_keeps(set, p) == set

\* untrack_process: discard, a no-op when the process is not tracked
untrack_process(set, p) == set \ {p}

\* terminate_process: nothing is sent to a process that already exited; a live
\* one is stopped by terminate() or, after the bounded wait, by kill()
terminate_process(state, p, how) ==
    IF Alive(p) THEN [state EXCEPT ![p[1]] = how] ELSE state

\* the subprocess ends by itself with exit code 0 or with a non-zero exit
\* code; git clone fails on a destination that is a regular file
process_exit(t) ==
    /\ proc_state[t] = "running"
    /\ \E code \in {"exit0", "exitN"} :
         /\ proc_state' = [proc_state EXCEPT ![t] = code]
         /\ IF proc_kind[t] = "clone" /\ dir[ident[t]] = "file"
            THEN code = "exitN" /\ dir' = dir
            ELSE IF proc_kind[t] = "clone"
            THEN \/ code = "exit0" /\ dir' = [dir EXCEPT ![ident[t]] = "cloned"]
                 \/ code = "exitN" /\ \E d \in {"partial", "absent"} :
                                        dir' = [dir EXCEPT ![ident[t]] = d]
            ELSE dir' = dir
    /\ UNCHANGED <<registry_vars, op_pc, proc_kind, future>>
    /\ UNCHANGED <<orch_vars, run_vars, sd_vars, hist_vars, input_vars, fn_vars>>

\* a batch run that goes on to its second statement with the flag as it was
clear_shutdown_request_skipped ==
    /\ run_pc = "launched"
    /\ run_pc' = "cleared"
    /\ UNCHANGED <<registry_vars, op_vars, orch_vars, dir, run_success_count,
                   run_fail_count, run_failed_tasks, check_failed_tasks, result,
                   file>>
    /\ UNCHANGED <<sd_vars, hist_vars, input_vars, fn_vars>>

\* clear_shutdown_request, the first statement of both batch runs
clear_shutdown_request ==
    /\ run_pc = "launched"
    /\ shutdown_event' = FALSE
    /\ run_pc' = "cleared"
    /\ UNCHANGED <<active_processes, op_vars, orch_vars, dir, run_success_count,
                   run_fail_count, run_failed_tasks, check_failed_tasks, result,
                   file>>
    /\ UNCHANGED <<sd_vars, hist_vars, input_vars, fn_vars>>

\* is_shutdown_requested
is_shutdown_requested == shutdown_event

\* request_shutdown, first statement: _shutdown_event.set().  The GUI calls it
\* from closeEvent, at any time once a run's worker thread has been started.
request_shutdown ==
    /\ sd_pc = "idle"
    /\ run_pc \notin {"done", "failed"}
    /\ shutdown_event' = TRUE
    /\ sd_pc' = "set"
    /\ sd_at_call' = active_processes
    /\ UNCHANGED <<active_processes, op_vars, orch_vars, run_vars, dir,
                   sd_processes, sd_flag_at_return>>
    /\ UNCHANGED <<hist_vars, input_vars, fn_vars>>

\* terminate_all_tracked_processes: processes = list(_active_processes)
terminate_all_tracked_processes_snapshot ==
    /\ sd_pc = "set"
    /\ sd_processes' = active_processes
    /\ sd_pc' = "terminating"
    /\ UNCHANGED <<registry_vars, op_vars, orch_vars, run_vars, dir, sd_at_call,
                   sd_flag_at_return>>
    /\ UNCHANGED <<hist_vars, input_vars, fn_vars>>

\* terminate_all_tracked_processes: one iteration of the loop over `processes`
terminate_all_tracked_processes_step(p) ==
    /\ sd_pc = "terminating"
    /\ p \in sd_processes
    /\ proc_state' = terminate_process(proc_state, p, "killed")
    /\ active_processes' = untrack_process(active_processes, p)
    /\ sd_processes' = sd_processes \ {p}
    /\ UNCHANGED <<shutdown_event, op_pc, proc_kind, future, dir, sd_pc,
                   sd_at_call, sd_flag_at_return>>
    /\ UNCHANGED <<orch_vars, run_vars, hist_vars, input_vars, fn_vars>>

\* request_shutdown returns once the loop is over
request_shutdown_return ==
    /\ sd_pc = "terminating"
    /\ sd_processes = {}
    /\ sd_pc' = "returned"
    /\ sd_flag_at_return' = shutdown_event
    /\ UNCHANGED <<registry_vars, op_vars, orch_vars, run_vars, dir,
                   sd_processes, sd_at_call>>
    /\ UNCHANGED <<hist_vars, input_vars, fn_vars>>

\* ----------------------------------------------------------- worker pool
\* a pool thread is free: fewer than max_workers operations are in progress
WorkerFree ==
    Cardinality({t \in Range(tasks) : op_pc[t] \notin {"queued", "done"}}) < parallel_tasks

\* the work queue is FIFO: t is the first submitted task not yet taken
NextQueued(t) ==
    \E i \in 1..Len(tasks) :
        /\ tasks[i] = t
        /\ op_pc[t] = "queued"
        /\ \A j \in 1..(i - 1) : op_pc[tasks[j]] # "queued"

\* the operation returns (or raises): the future of task t gets its result
Return(t, value) ==
    /\ op_pc' = [op_pc EXCEPT ![t] = "done"]
    /\ future' = [future EXCEPT ![t] = value]

\* the body of `with ThreadPoolExecutor(...)` up to the first as_completed:
\* counters zeroed, progress_cb(0, total, 0, 0), every task submitted once.
\* The subprocesses of an earlier phase have exited and are forgotten, and the
\* history variables start again for the operations of this phase.
SubmitAll(ts) ==
    /\ tasks' = ts
    /\ success_count' = 0
    /\ fail_count' = 0
    /\ failed_tasks' = <<>>
    /\ yielded' = {}
    /\ progress_calls' = <<<<0, Len(ts), 0, 0>>>>
    /\ orch_pc' = "draining"
    /\ op_pc' = [t \in Tasks |-> IF t \in Range(ts) THEN "queued" ELSE "idle"]
    /\ future' = [t \in Tasks |-> IF t \in Range(ts) THEN "pending" ELSE "none"]
    /\ proc_kind' = [t \in Tasks |-> "none"]
    /\ proc_state' = [t \in Tasks |-> "none"]
    /\ woke' = {}
    /\ spawned_clone' = [t \in Tasks |-> FALSE]
    /\ removed_dir' = [t \in Tasks |-> FALSE]
    /\ ic_valid' = [t \in Tasks |-> FALSE]

\* a completed future that as_completed has not yielded yet
Completed(t) == t \in Range(tasks) /\ future[t] \notin {"pending", "none"} /\ t \notin yielded

\* ---------------------------------------------------------- pull operation
\* A diagnostic text is the set of the fragments it contains; a fragment is a
\* phrase, named by its lower-case form, and the case it is written in
Fragment(phrase, case) == [phrase |-> phrase, case |-> case]

\* str.lower()
lower(text) == {Fragment(f.phrase, "lower") : f \in text}

\* `phrase in text`, a case-sensitive substring test for a lower-case phrase
Contains(text, phrase) == Fragment(phrase, "lower") \in text

\* diagnostic texts of a failed pull
StderrSamples ==
    { {},
      {Fragment("authentication failed", "mixed"), Fragment("timed out", "lower")} }

\* a mutation: the authentication rule is tried before the network rule
_extract_pull_failure_reason_auth_first(stderr_text) ==
    LET text == lower(stderr_text)
    IN  IF text = {} THEN "unknown"
        ELSE IF Contains(text, "not a git repository") THEN "not_git_repo"
        ELSE IF Contains(text, "couldn't find remote ref") \/ Contains(text, "no such remote")
             THEN "remote_ref_missing"
        ELSE IF Contains(text, "your local changes") \/ Contains(text, "would be overwritten")
             THEN "local_changes_conflict"
        ELSE IF Contains(text, "fatal: refusing to merge unrelated histories")
             THEN "unrelated_histories"
        ELSE IF Contains(text, "not possible to fast-forward")
                \/ Contains(text, "cannot fast-forward")
             THEN "not_fast_forward"
        ELSE IF Contains(text, "authentication failed") \/ Contains(text, "permission denied")
             THEN "auth_error"
        ELSE IF Contains(text, "could not resolve host") \/ Contains(text, "failed to connect")
                \/ Contains(text, "timed out")
             THEN "network_error"
        ELSE "unknown"

_extract_pull_failure_reason(stderr_text) ==
    LET text == lower(stderr_text)
    IN  IF text = {} THEN "unknown"
        ELSE IF Contains(text, "not a git repository") THEN "not_git_repo"
        ELSE IF Contains(text, "couldn't find remote ref") \/ Contains(text, "no such remote")
             THEN "remote_ref_missing"
        ELSE IF Contains(text, "your local changes") \/ Contains(text, "would be overwritten")
             THEN "local_changes_conflict"
        ELSE IF Contains(text, "fatal: refusing to merge unrelated histories")
             THEN "unrelated_histories"
        ELSE IF Contains(text, "not possible to fast-forward")
                \/ Contains(text, "cannot fast-forward")
             THEN "not_fast_forward"
        ELSE IF Contains(text, "could not resolve host") \/ Contains(text, "failed to connect")
                \/ Contains(text, "timed out")
             THEN "network_error"
        ELSE IF Contains(text, "authentication failed") \/ Contains(text, "permission denied")
             THEN "auth_error"
        ELSE "unknown"

\* pull_repo, entry (a pool thread takes the task): the first flag test
pull_repo_enter(t) ==
    /\ run_pc = "pull"
    /\ NextQueued(t)
    /\ WorkerFree
    /\ IF is_shutdown_requested
       THEN Return(t, "canceled")
       ELSE /\ op_pc' = [op_pc EXCEPT ![t] = "precheck"]
            /\ future' = future
    /\ UNCHANGED <<registry_vars, proc_kind, proc_state, dir>>
    /\ UNCHANGED <<orch_vars, run_vars, sd_vars, hist_vars, input_vars, fn_vars>>

\* pull_repo: the existence test of the repository and of its .git, then Popen
pull_repo_precheck(t) ==
    /\ run_pc = "pull"
    /\ op_pc[t] = "precheck"
    /\ \/ /\ Return(t, "raise")              \* Path.exists() raises, outside the try
          /\ UNCHANGED <<proc_kind, proc_state>>
       \/ /\ ~HasGitMarker(dir[ident[t]])
          /\ Return(t, "local_repo_missing")
          /\ UNCHANGED <<proc_kind, proc_state>>
       \/ /\ HasGitMarker(dir[ident[t]])
          /\ Return(t, "exception")          \* Popen raises, inside the try
          /\ UNCHANGED <<proc_kind, proc_state>>
       \/ /\ HasGitMarker(dir[ident[t]])
          /\ proc_kind' = [proc_kind EXCEPT ![t] = "pull"]
          /\ proc_state' = [proc_state EXCEPT ![t] = "running"]
          /\ op_pc' = [op_pc EXCEPT ![t] = "spawned"]
          /\ future' = future
    /\ UNCHANGED <<registry_vars, dir>>
    /\ UNCHANGED <<orch_vars, run_vars, sd_vars, hist_vars, input_vars, fn_vars>>

\* pull_repo after the wait: a mutation that looks at the exit code first
pull_outcome_exit_code_first(flag, state, text) ==
    IF state = "exit0" THEN "ok"
    ELSE IF flag THEN "canceled"
    ELSE _extract_pull_failure_reason(text)

\* pull_repo after the wait: the flag is tested before the exit code
pull_outcome(flag, state, text) ==
    IF flag THEN "canceled"
    ELSE IF state # "exit0" THEN _extract_pull_failure_reason(text)
    ELSE "ok"

\* pull_repo: process.communicate() returns, the finally: untrack_process,
\* then the result
pull_repo_wait(t) ==
    /\ run_pc = "pull"
    /\ op_pc[t] = "waiting"
    /\ proc_state[t] # "running"
    /\ active_processes' = untrack_process(active_processes, <<t, "pull">>)
    /\ \E text \in StderrSamples :
         LET out == pull_outcome(is_shutdown_requested, proc_state[t], text)
         IN  /\ Return(t, out)
             /\ woke' = woke \cup {[task |-> t, proc |-> "pull",
                                    flag |-> shutdown_event,
                                    state |-> proc_state[t], outcome |-> out,
                                    dir |-> dir[ident[t]]]}
    /\ UNCHANGED <<shutdown_event, proc_kind, proc_state, dir>>
    /\ UNCHANGED <<orch_vars, run_vars, sd_vars, spawned_clone, removed_dir,
                   ic_valid, clone_ok, input_vars, fn_vars>>

\* ------------------------------------------------------- integrity check
\* a mutation of the incremental skip: the clone is redone whatever the check says
CheckReturn_always_reclone(t, value) ==
    IF op_pc[t] \in {"ic_enter", "ic_waiting"}
    THEN /\ op_pc' = [op_pc EXCEPT ![t] = "delete"]
         /\ future' = future
    ELSE Return(t, value)

\* check_repo hands its result to its caller: the pool (the future of a check
\* task) or clone_repo, which skips the clone on a valid result and goes on to
\* delete the directory on an invalid one
CheckReturn(t, value) ==
    IF op_pc[t] \in {"ic_enter", "ic_waiting"}
    THEN IF value = "ok"
         THEN Return(t, "ok")
         ELSE /\ op_pc' = [op_pc EXCEPT ![t] = "delete"]
              /\ future' = future
    ELSE Return(t, value)

\* check_repo up to Popen: the .git test, the flag test, the fsck subprocess.
\* It runs as a task of the check phase or as the incremental check of clone_repo.
check_repo_enter(t) ==
    /\ \/ run_pc = "check" /\ NextQueued(t) /\ WorkerFree
       \/ run_pc = "clone" /\ op_pc[t] = "ic_enter"
    /\ \/ /\ Return(t, "raise")              \* Path.exists() raises, outside the try
          /\ UNCHANGED <<proc_kind, proc_state>>
       \/ /\ ~HasGitMarker(dir[ident[t]])
          /\ CheckReturn(t, "not_git")
          /\ UNCHANGED <<proc_kind, proc_state>>
       \/ /\ HasGitMarker(dir[ident[t]])
          /\ is_shutdown_requested
          /\ CheckReturn(t, "canceled")
          /\ UNCHANGED <<proc_kind, proc_state>>
       \/ /\ HasGitMarker(dir[ident[t]])
          /\ ~is_shutdown_requested
          /\ CheckReturn(t, "check_failed")  \* Popen raises, inside the try
          /\ UNCHANGED <<proc_kind, proc_state>>
       \/ /\ HasGitMarker(dir[ident[t]])
          /\ ~is_shutdown_requested
          /\ proc_kind' = [proc_kind EXCEPT ![t] =
                              IF run_pc = "check" THEN "fsck2" ELSE "fsck"]
          /\ proc_state' = [proc_state EXCEPT ![t] = "running"]
          /\ op_pc' = [op_pc EXCEPT ![t] =
                          IF run_pc = "check" THEN "spawned" ELSE "ic_spawned"]
          /\ future' = future
    /\ UNCHANGED <<registry_vars, dir>>
    /\ UNCHANGED <<orch_vars, run_vars, sd_vars, hist_vars, input_vars, fn_vars>>

\* diagnostic texts of a failed fsck: "dangling ..." warning lines, lines that
\* report an error, both or nothing
FsckStderrSamples ==
    { {Fragment("dangling", "lower")},
      {Fragment("dangling", "lower"), Fragment("error: missing blob", "lower")},
      {Fragment("error: missing blob", "lower")},
      {} }

\* check_repo on a non-zero exit code: valid when the lower-cased diagnostic
\* contains "dangling", else invalid with the start of the diagnostic, or
\* with the fixed message when there is none
check_repo_nonzero_exit(stderr) ==
    IF Contains(lower(stderr), "dangling")
    THEN [valid |-> TRUE, error_msg |-> "None"]
    ELSE [valid |-> FALSE,
          error_msg |-> IF stderr # {} THEN "stderr[:200]" ELSE "unknown error"]

\* check_repo after the wait: the flag, then the exit code, then the diagnostic
check_outcome(flag, state, stderr) ==
    IF flag THEN "canceled"
    ELSE IF state = "exit0" THEN "ok"
    ELSE IF check_repo_nonzero_exit(stderr).valid THEN "ok"
    ELSE "fsck_error"

\* check_repo: communicate(timeout) returns or times out, the finally:
\* untrack_process, then the result
check_repo_wait(t) ==
    /\ \/ run_pc = "check" /\ op_pc[t] = "waiting"
       \/ run_pc = "clone" /\ op_pc[t] = "ic_waiting"
    /\ active_processes' = untrack_process(active_processes, <<t, proc_kind[t]>>)
    /\ \/ /\ proc_state[t] = "running"       \* subprocess.TimeoutExpired
          /\ proc_state' = terminate_process(proc_state, <<t, proc_kind[t]>>, "timed_out")
          /\ CheckReturn(t, "timeout")
          /\ UNCHANGED <<woke, ic_valid>>
       \/ /\ proc_state[t] # "running"
          /\ proc_state' = proc_state
          /\ \E stderr \in FsckStderrSamples :
               LET out == check_outcome(is_shutdown_requested, proc_state[t], stderr)
               IN  /\ CheckReturn(t, out)
                   /\ ic_valid' = [ic_valid EXCEPT ![t] =
                                      @ \/ (op_pc[t] = "ic_waiting" /\ out = "ok")]
                   /\ woke' = woke \cup {[task |-> t, proc |-> proc_kind[t],
                                          flag |-> shutdown_event,
                                          state |-> proc_state[t], outcome |-> out,
                                          dir |-> dir[ident[t]]]}
    /\ UNCHANGED <<shutdown_event, proc_kind, dir>>
    /\ UNCHANGED <<orch_vars, run_vars, sd_vars, spawned_clone, removed_dir,
                   clone_ok, input_vars, fn_vars>>

\* --------------------------------------------------------- clone operation
\* _cleanup_failed_directory: nothing to do when the directory is absent; else
\* rmtree removes it, or fails and the failure is ignored; rmtree and the
\* forced delete both fail on a regular file
_cleanup_failed_directory(d) ==
    IF ~DirExists(d) \/ ~IsDir(d) THEN {d} ELSE {"absent", d}

\* clone_repo, entry (a pool thread takes the task): the flag test, then the
\* test of the target directory
clone_repo_enter(t) ==
    /\ run_pc = "clone"
    /\ NextQueued(t)
    /\ WorkerFree
    /\ IF is_shutdown_requested
       THEN Return(t, "canceled")
       ELSE /\ future' = future
            /\ op_pc' = [op_pc EXCEPT ![t] =
                  IF DirExists(dir[ident[t]]) /\ IsDir(dir[ident[t]])
                  THEN IF HasGitMarker(dir[ident[t]]) THEN "ic_enter" ELSE "delete"
                  ELSE "prepare"]
    /\ UNCHANGED <<registry_vars, proc_kind, proc_state, dir>>
    /\ UNCHANGED <<orch_vars, run_vars, sd_vars, hist_vars, input_vars, fn_vars>>

\* clone_repo: the existing directory is deleted (rmtree, then the forced
\* delete of the platform); when that fails clone_repo returns False
clone_repo_delete(t) ==
    /\ run_pc = "clone"
    /\ op_pc[t] = "delete"
    /\ \/ /\ dir' = [dir EXCEPT ![ident[t]] = "absent"]
          /\ removed_dir' = [removed_dir EXCEPT ![t] = TRUE]
          /\ op_pc' = [op_pc EXCEPT ![t] = "prepare"]
          /\ future' = future
       \/ /\ Return(t, "failed")
          /\ UNCHANGED <<dir, removed_dir>>
    /\ UNCHANGED <<registry_vars, proc_kind, proc_state>>
    /\ UNCHANGED <<orch_vars, run_vars, sd_vars, woke, spawned_clone, ic_valid,
                   clone_ok, input_vars, fn_vars>>

\* clone_repo: mkdir of the parent, get_repo_url, then Popen of git clone
clone_repo_spawn(t) ==
    /\ run_pc = "clone"
    /\ op_pc[t] = "prepare"
    /\ \/ /\ Return(t, "failed")             \* mkdir fails
          /\ UNCHANGED <<proc_kind, proc_state, dir, spawned_clone>>
       \/ /\ Return(t, "raise")              \* get_repo_url raises, outside the try
          /\ UNCHANGED <<proc_kind, proc_state, dir, spawned_clone>>
       \/ /\ \E d \in _cleanup_failed_directory(dir[ident[t]]) :   \* Popen raises
               dir' = [dir EXCEPT ![ident[t]] = d]
          /\ Return(t, "failed")
          /\ UNCHANGED <<proc_kind, proc_state, spawned_clone>>
       \/ /\ proc_kind' = [proc_kind EXCEPT ![t] = "clone"]
          /\ proc_state' = [proc_state EXCEPT ![t] = "running"]
          /\ dir' = [dir EXCEPT ![ident[t]] = IF @ = "file" THEN @ ELSE "partial"]
          /\ spawned_clone' = [spawned_clone EXCEPT ![t] = TRUE]
          /\ op_pc' = [op_pc EXCEPT ![t] = "spawned"]
          /\ future' = future
    /\ UNCHANGED <<registry_vars>>
    /\ UNCHANGED <<orch_vars, run_vars, sd_vars, woke, removed_dir, ic_valid,
                   clone_ok, input_vars, fn_vars>>

\* clone_repo after the wait: the flag is tested before the exit code
clone_outcome(flag, state) ==
    IF flag THEN "canceled"
    ELSE IF state # "exit0" THEN "failed"
    ELSE "ok"

\* clone_repo: process.wait() returns, the finally: untrack_process, then the
\* result; every failure cleans the directory
clone_repo_wait(t) ==
    /\ run_pc = "clone"
    /\ op_pc[t] = "waiting"
    /\ proc_state[t] # "running"
    /\ active_processes' = untrack_process(active_processes, <<t, "clone">>)
    /\ LET out == clone_outcome(is_shutdown_requested, proc_state[t])
       IN  /\ Return(t, out)
           /\ IF out = "ok"
              THEN dir' = dir
              ELSE \E d \in _cleanup_failed_directory(dir[ident[t]]) :
                      dir' = [dir EXCEPT ![ident[t]] = d]
           /\ woke' = woke \cup {[task |-> t, proc |-> "clone",
                                  flag |-> shutdown_event,
                                  state |-> proc_state[t], outcome |-> out,
                                  dir |-> dir'[ident[t]]]}
    /\ UNCHANGED <<shutdown_event, proc_kind, proc_state>>
    /\ UNCHANGED <<orch_vars, run_vars, sd_vars, spawned_clone, removed_dir,
                   ic_valid, clone_ok, input_vars, fn_vars>>

\* ---------------------------------------------------------- orchestrators
\* mutations of the loop body: a raised operation is counted but its task is
\* not recorded; a raised operation ends the loop; the callback is skipped
\* for a failure
Tally_drops_raised(t, entry) ==
    /\ yielded' = yielded \cup {t}
    /\ IF future[t] = "ok"
       THEN /\ success_count' = success_count + 1
            /\ UNCHANGED <<fail_count, failed_tasks>>
       ELSE /\ fail_count' = fail_count + 1
            /\ failed_tasks' = IF future[t] = "raise" THEN failed_tasks
                               ELSE Append(failed_tasks, entry)
            /\ UNCHANGED success_count
    /\ progress_calls' = Append(progress_calls,
          <<success_count' + fail_count', Len(tasks), success_count', fail_count'>>)
    /\ orch_pc' = orch_pc

Tally_raise_aborts(t, entry) ==
    IF future[t] = "raise"
    THEN /\ orch_pc' = "joining"
         /\ UNCHANGED <<yielded, success_count, fail_count, failed_tasks,
                        progress_calls>>
    ELSE /\ yielded' = yielded \cup {t}
         /\ IF future[t] = "ok"
            THEN /\ success_count' = success_count + 1
                 /\ UNCHANGED <<fail_count, failed_tasks>>
            ELSE /\ fail_count' = fail_count + 1
                 /\ failed_tasks' = Append(failed_tasks, entry)
                 /\ UNCHANGED success_count
         /\ progress_calls' = Append(progress_calls,
               <<success_count' + fail_count', Len(tasks), success_count', fail_count'>>)
         /\ orch_pc' = orch_pc

Tally_silent_failure(t, entry) ==
    /\ yielded' = yielded \cup {t}
    /\ IF future[t] = "ok"
       THEN /\ success_count' = success_count + 1
            /\ progress_calls' = Append(progress_calls,
                  <<success_count' + fail_count, Len(tasks), success_count', fail_count>>)
            /\ UNCHANGED <<fail_count, failed_tasks>>
       ELSE /\ fail_count' = fail_count + 1
            /\ failed_tasks' = Append(failed_tasks, entry)
            /\ UNCHANGED <<success_count, progress_calls>>
    /\ orch_pc' = orch_pc

\* the body of the as_completed loop after the flag test: future.result() is
\* tallied (a False result and a raised exception both count as a failure and
\* record the task), then progress_cb(done, total, success, fail)
Tally(t, entry) ==
    /\ yielded' = yielded \cup {t}
    /\ IF future[t] = "ok"
       THEN /\ success_count' = success_count + 1
            /\ UNCHANGED <<fail_count, failed_tasks>>
       ELSE /\ fail_count' = fail_count + 1
            /\ failed_tasks' = Append(failed_tasks, entry)
            /\ UNCHANGED success_count
    /\ progress_calls' = Append(progress_calls,
          <<success_count' + fail_count', Len(tasks), success_count', fail_count'>>)
    /\ orch_pc' = orch_pc

\* `break`: the loop stops collecting
StopCollecting ==
    /\ orch_pc' = "joining"
    /\ UNCHANGED <<success_count, fail_count, failed_tasks, yielded, progress_calls>>

\* the as_completed loop is over (exhausted or left by break) and the
\* executor's __exit__ has waited for every submitted operation
LoopOver ==
    /\ orch_pc = "joining" \/ (orch_pc = "draining" /\ yielded = Range(tasks))
    /\ \A t \in Range(tasks) : op_pc[t] = "done"

\* a mutation of the early return: the zero-task case goes through the
\* counters, the first callback and the pool like any other
ReturnAtOnce_after_callback == SubmitAll(<<>>)

\* total == 0: `return 0, 0, []`, before the counters are set, the callback
\* is fired and the pool is created; no operation is submitted
ReturnAtOnce ==
    /\ tasks' = <<>>
    /\ success_count' = 0
    /\ fail_count' = 0
    /\ failed_tasks' = <<>>
    /\ yielded' = {}
    /\ progress_calls' = <<>>
    /\ orch_pc' = "joining"
    /\ UNCHANGED <<op_vars, woke, spawned_clone, removed_dir, ic_valid>>

\* the three orchestrators up to their as_completed loop
execute_parallel_pull_call(ts) ==
    IF Len(ts) = 0 THEN ReturnAtOnce ELSE SubmitAll(ts)

check_repos_parallel_call(ts) ==
    IF Len(ts) = 0 THEN ReturnAtOnce ELSE SubmitAll(ts)

execute_parallel_clone_call(ts) ==
    IF Len(ts) = 0 THEN ReturnAtOnce ELSE SubmitAll(ts)

\* parse_repo_groups on what the manifest's path holds: SystemExit for a
\* missing path, a directory, an unreadable file and a missing or empty owner
\* line; else one task per bullet line under a group header
parse_repo_groups(content) ==
    IF content \in {"absent", "directory", "unreadable", "no_owner", "empty_owner"}
    THEN [exit |-> TRUE, tasks |-> <<>>]
    ELSE IF content = "no_tasks"
    THEN [exit |-> FALSE, tasks |-> <<>>]
    ELSE [exit |-> FALSE, tasks |-> [i \in 1..NumTasks |-> i]]

\* a mutation of the parse step: an empty task list is not an error
ManifestError_allows_empty(parsed) == parsed.exit

\* the two ways the parse step ends a run: SystemExit, or ValueError on an
\* empty task list
ManifestError(parsed) == parsed.exit \/ parsed.tasks = <<>>

\* the except clauses of the run: (False, {}, message)
RunFails(parsed) ==
    /\ run_pc' = "failed"
    /\ result' = [status |-> "error",
                  message |-> IF parsed.exit THEN "Config parse failed"
                              ELSE "No repository tasks found in config"]

\* if failed_repos_file.exists(): unlink(), an exception of unlink ignored
unlink_stale(f) ==
    IF f[FAILED_REPOS_FILE] = "absent" THEN {f}
    ELSE {[f EXCEPT ![FAILED_REPOS_FILE] = "absent"], f}

\* save_failed_repos with a non-empty list: write_text, an exception of it
\* logged and ignored
save_failed_repos(f) ==
    {[f EXCEPT ![FAILED_REPOS_FILE] = "written"], f}

\* run_pull_updates up to the as_completed loop of execute_parallel_pull:
\* the manifest is parsed, a stale retry manifest is deleted and every task
\* is submitted
run_pull_updates_begin ==
    /\ flow = "pull"
    /\ run_pc = "cleared"
    /\ LET parsed == parse_repo_groups(file[config_file])
       IN  IF ManifestError(parsed)
           THEN /\ RunFails(parsed)
                /\ UNCHANGED <<file, orch_vars, op_vars, woke, spawned_clone,
                               removed_dir, ic_valid>>
           ELSE /\ run_pc' = "pull"
                /\ file' \in unlink_stale(file)
                /\ execute_parallel_pull_call(parsed.tasks)
                /\ result' = result
    /\ UNCHANGED <<registry_vars, dir, run_success_count, run_fail_count,
                   run_failed_tasks, check_failed_tasks>>
    /\ UNCHANGED <<sd_vars, clone_ok, input_vars, fn_vars>>

\* task_with_reason: the reason returned, or "exception" for a raised operation
task_with_reason(t) ==
    [task |-> t, reason |-> IF future[t] = "raise" THEN "exception" ELSE future[t]]

\* a mutation: the loop of execute_parallel_pull without the flag test
execute_parallel_pull_collect_no_break(t) ==
    /\ run_pc = "pull"
    /\ orch_pc = "draining"
    /\ Completed(t)
    /\ Tally(t, task_with_reason(t))
    /\ UNCHANGED <<tasks, registry_vars, op_vars, run_vars, dir>>
    /\ UNCHANGED <<sd_vars, hist_vars, input_vars, fn_vars>>

\* execute_parallel_pull: one iteration of `for future in as_completed(...)`
execute_parallel_pull_collect(t) ==
    /\ run_pc = "pull"
    /\ orch_pc = "draining"
    /\ Completed(t)
    /\ IF is_shutdown_requested
       THEN StopCollecting
       ELSE Tally(t, task_with_reason(t))
    /\ UNCHANGED <<tasks, registry_vars, op_vars, run_vars, dir>>
    /\ UNCHANGED <<sd_vars, hist_vars, input_vars, fn_vars>>

\* execute_parallel_pull returns to run_pull_updates
execute_parallel_pull_return ==
    /\ run_pc = "pull"
    /\ LoopOver
    /\ orch_pc' = "returned"
    /\ run_success_count' = success_count
    /\ run_fail_count' = fail_count
    /\ run_failed_tasks' = failed_tasks
    /\ run_pc' = "finish"
    /\ UNCHANGED <<tasks, success_count, fail_count, failed_tasks, yielded,
                   progress_calls, check_failed_tasks, result, file>>
    /\ UNCHANGED <<registry_vars, op_vars, dir, sd_vars, hist_vars, input_vars, fn_vars>>

\* {repo_full: reason for task in failed_tasks}: tasks with the same
\* repo_full share a key, and the later entry replaces the earlier one
failed_reasons(failed) ==
    [k \in {ident[failed[i].task] : i \in 1..Len(failed)} |->
        LET last == CHOOSE i \in 1..Len(failed) :
                        /\ ident[failed[i].task] = k
                        /\ \A j \in (i + 1)..Len(failed) : ident[failed[j].task] # k
        IN  failed[last].reason]

\* run_pull_updates: the retry manifest is written when a task failed, then
\* the result dict
run_pull_updates_finish ==
    /\ flow = "pull"
    /\ run_pc = "finish"
    /\ run_pc' = "done"
    /\ file' \in IF run_failed_tasks # <<>> THEN save_failed_repos(file) ELSE {file}
    /\ result' = [status |-> "ok", total |-> NumTasks, success |-> run_success_count,
                  fail |-> run_fail_count,
                  failed_file |-> IF run_failed_tasks # <<>>
                                  THEN FAILED_REPOS_FILE ELSE "",
                  failed_reasons |-> failed_reasons(run_failed_tasks)]
    /\ UNCHANGED <<run_success_count, run_fail_count, run_failed_tasks,
                   check_failed_tasks>>
    /\ UNCHANGED <<registry_vars, op_vars, orch_vars, dir, sd_vars, hist_vars,
                   input_vars, fn_vars>>

\* run_clone_and_check up to the as_completed loop of execute_parallel_clone
run_clone_and_check_begin ==
    /\ flow = "clone_and_check"
    /\ run_pc = "cleared"
    /\ LET parsed == parse_repo_groups(file[config_file])
       IN  IF ManifestError(parsed)
           THEN /\ RunFails(parsed)
                /\ UNCHANGED <<file, orch_vars, op_vars, woke, spawned_clone,
                               removed_dir, ic_valid>>
           ELSE /\ run_pc' = "clone"
                /\ file' \in unlink_stale(file)
                /\ execute_parallel_clone_call(parsed.tasks)
                /\ result' = result
    /\ UNCHANGED <<registry_vars, dir, run_success_count, run_fail_count,
                   run_failed_tasks, check_failed_tasks>>
    /\ UNCHANGED <<sd_vars, clone_ok, input_vars, fn_vars>>

\* execute_parallel_clone: one iteration of the loop over completed futures
execute_parallel_clone_collect(t) ==
    /\ run_pc = "clone"
    /\ orch_pc = "draining"
    /\ Completed(t)
    /\ IF is_shutdown_requested
       THEN StopCollecting
       ELSE Tally(t, [task |-> t])
    /\ UNCHANGED <<tasks, registry_vars, op_vars, run_vars, dir>>
    /\ UNCHANGED <<sd_vars, hist_vars, input_vars, fn_vars>>

\* execute_parallel_clone returns to run_clone_and_check
execute_parallel_clone_return ==
    /\ run_pc = "clone"
    /\ LoopOver
    /\ orch_pc' = "returned"
    /\ run_success_count' = success_count
    /\ run_fail_count' = fail_count
    /\ run_failed_tasks' = failed_tasks
    /\ run_pc' = "cloned"
    /\ clone_ok' = {t \in yielded : future[t] = "ok"}
    /\ UNCHANGED <<tasks, success_count, fail_count, failed_tasks, yielded,
                   progress_calls, check_failed_tasks, result, file>>
    /\ UNCHANGED <<registry_vars, op_vars, dir, sd_vars, woke, spawned_clone,
                   removed_dir, ic_valid, input_vars, fn_vars>>

\* task not in failed_tasks: list membership compares the dicts by value
NotInFailed(t, failed) == \A i \in 1..Len(failed) : ident[failed[i].task] # ident[t]

\* a mutation: every parsed task is checked, the failed clones included
successful_tasks_all(parsed, failed) == parsed

\* successful_tasks = [task for task in parsed_tasks if task not in failed_tasks]
successful_tasks(parsed, failed) ==
    SelectTasks(parsed, {i \in 1..Len(parsed) : NotInFailed(parsed[i], failed)})

\* run_clone_and_check between the two phases: the check phase runs when some
\* clone succeeded; check_repos_parallel returns at once on an empty list
run_clone_and_check_check_begin ==
    /\ flow = "clone_and_check"
    /\ run_pc = "cloned"
    /\ LET ts == successful_tasks(tasks, run_failed_tasks)
       IN  IF run_success_count > 0 /\ ts # <<>>
           THEN /\ run_pc' = "check"
                /\ SubmitAll(ts)
           ELSE /\ run_pc' = "finish"
                /\ UNCHANGED <<orch_vars, op_vars, woke, spawned_clone,
                               removed_dir, ic_valid>>
    /\ UNCHANGED <<registry_vars, dir, run_success_count, run_fail_count,
                   run_failed_tasks, check_failed_tasks, result, file>>
    /\ UNCHANGED <<sd_vars, clone_ok, input_vars, fn_vars>>

\* check_repos_parallel: one iteration of `for future in as_completed(...)`
check_repos_parallel_collect(t) ==
    /\ run_pc = "check"
    /\ orch_pc = "draining"
    /\ Completed(t)
    /\ IF is_shutdown_requested
       THEN StopCollecting
       ELSE Tally(t, [task |-> t])
    /\ UNCHANGED <<tasks, registry_vars, op_vars, run_vars, dir>>
    /\ UNCHANGED <<sd_vars, hist_vars, input_vars, fn_vars>>

\* check_repos_parallel returns; run_clone_and_check moves every task that
\* failed the check from the success tally to the failure tally
check_repos_parallel_return ==
    /\ run_pc = "check"
    /\ LoopOver
    /\ orch_pc' = "returned"
    /\ check_failed_tasks' = failed_tasks
    /\ run_failed_tasks' = run_failed_tasks \o failed_tasks
    /\ run_fail_count' = run_fail_count + Len(failed_tasks)
    /\ run_success_count' = run_success_count - Len(failed_tasks)
    /\ run_pc' = "finish"
    /\ UNCHANGED <<tasks, success_count, fail_count, failed_tasks, yielded,
                   progress_calls, result, file>>
    /\ UNCHANGED <<registry_vars, op_vars, dir, sd_vars, hist_vars, input_vars, fn_vars>>

\* run_clone_and_check: the retry manifest is written when a task failed,
\* then the result dict
run_clone_and_check_finish ==
    /\ flow = "clone_and_check"
    /\ run_pc = "finish"
    /\ run_pc' = "done"
    /\ file' \in IF run_failed_tasks # <<>> THEN save_failed_repos(file) ELSE {file}
    /\ result' = [status |-> "ok", total |-> NumTasks, success |-> run_success_count,
                  fail |-> run_fail_count,
                  failed_file |-> IF run_failed_tasks # <<>>
                                  THEN FAILED_REPOS_FILE ELSE ""]
    /\ UNCHANGED <<run_success_count, run_fail_count, run_failed_tasks,
                   check_failed_tasks>>
    /\ UNCHANGED <<registry_vars, op_vars, orch_vars, dir, sd_vars, hist_vars,
                   input_vars, fn_vars>>

\* ------------------------------------------------------------ specification
Next ==
    \/ clear_shutdown_request
    \/ request_shutdown
    \/ terminate_all_tracked_processes_snapshot
    \/ \E p \in sd_processes : terminate_all_tracked_processes_step(p)
    \/ request_shutdown_return
    \/ \E t \in Tasks : start_tracked_process(t)
    \/ \E t \in Tasks : process_exit(t)
    \/ run_pull_updates_begin
    \/ \E t \in Tasks : pull_repo_enter(t)
    \/ \E t \in Tasks : pull_repo_precheck(t)
    \/ \E t \in Tasks : pull_repo_wait(t)
    \/ \E t \in Tasks : execute_parallel_pull_collect(t)
    \/ execute_parallel_pull_return
    \/ run_pull_updates_finish
    \/ \E t \in Tasks : check_repo_enter(t)
    \/ \E t \in Tasks : check_repo_wait(t)
    \/ run_clone_and_check_begin
    \/ \E t \in Tasks : clone_repo_enter(t)
    \/ \E t \in Tasks : clone_repo_delete(t)
    \/ \E t \in Tasks : clone_repo_spawn(t)
    \/ \E t \in Tasks : clone_repo_wait(t)
    \/ \E t \in Tasks : execute_parallel_clone_collect(t)
    \/ execute_parallel_clone_return
    \/ run_clone_and_check_check_begin
    \/ \E t \in Tasks : check_repos_parallel_collect(t)
    \/ check_repos_parallel_return
    \/ run_clone_and_check_finish

Spec == Init /\ [][Next]_vars

\* ------------------------------------------------------ fair scheduling
\* Every thread of the program is scheduled fairly: the run, the workers of
\* the pool, the collecting loop and the thread inside request_shutdown() go
\* on whenever they can.  Nothing obliges the GUI to call request_shutdown(),
\* and nothing obliges a subprocess to exit by itself.
ProgramStep ==
    \/ clear_shutdown_request
    \/ terminate_all_tracked_processes_snapshot
    \/ \E p \in sd_processes : terminate_all_tracked_processes_step(p)
    \/ request_shutdown_return
    \/ \E t \in Tasks : start_tracked_process(t)
    \/ run_pull_updates_begin
    \/ \E t \in Tasks : pull_repo_enter(t)
    \/ \E t \in Tasks : pull_repo_precheck(t)
    \/ \E t \in Tasks : pull_repo_wait(t)
    \/ \E t \in Tasks : execute_parallel_pull_collect(t)
    \/ execute_parallel_pull_return
    \/ run_pull_updates_finish
    \/ \E t \in Tasks : check_repo_enter(t)
    \/ \E t \in Tasks : check_repo_wait(t)
    \/ run_clone_and_check_begin
    \/ \E t \in Tasks : clone_repo_enter(t)
    \/ \E t \in Tasks : clone_repo_delete(t)
    \/ \E t \in Tasks : clone_repo_spawn(t)
    \/ \E t \in Tasks : clone_repo_wait(t)
    \/ \E t \in Tasks : execute_parallel_clone_collect(t)
    \/ execute_parallel_clone_return
    \/ run_clone_and_check_check_begin
    \/ \E t \in Tasks : check_repos_parallel_collect(t)
    \/ check_repos_parallel_return
    \/ run_clone_and_check_finish

\* a run over different repositories, started with the flag cleared
InitFair ==
    /\ Init
    /\ ident = [t \in Tasks |-> t]
    /\ ~shutdown_event

SpecFair == InitFair /\ [][Next]_vars /\ WF_vars(ProgramStep)

\* ------------------------------------------- orchestrators called directly
\* the task lists a caller can hand to an orchestrator, the empty one included
DirectTaskLists == {<<>>, <<1>>, [i \in 1..NumTasks |-> i]}

\* a caller other than the batch runs is about to call an orchestrator; the
\* flag is whatever an earlier run left
InitDirect ==
    /\ flow = "direct"
    /\ parallel_tasks \in 1..MaxWorkers
    /\ InitTasks
    /\ config_file = CONFIG_FILE
    /\ file = [p \in Paths |-> IF p = CONFIG_FILE THEN "tasks" ELSE "absent"]
    /\ run_pc = "direct"
    /\ shutdown_event \in BOOLEAN
    /\ InitEngine
    /\ InitFunctions

\* execute_parallel_pull(tasks, parallel_tasks, progress_cb)
execute_parallel_pull_direct ==
    /\ run_pc = "direct"
    /\ run_pc' = "pull"
    /\ \E ts \in DirectTaskLists : execute_parallel_pull_call(ts)
    /\ UNCHANGED <<registry_vars, dir, run_success_count, run_fail_count,
                   run_failed_tasks, check_failed_tasks, result, file>>
    /\ UNCHANGED <<sd_vars, clone_ok, input_vars, fn_vars>>

\* check_repos_parallel(tasks, parallel_tasks, timeout, progress_cb)
check_repos_parallel_direct ==
    /\ run_pc = "direct"
    /\ run_pc' = "check"
    /\ \E ts \in DirectTaskLists : check_repos_parallel_call(ts)
    /\ UNCHANGED <<registry_vars, dir, run_success_count, run_fail_count,
                   run_failed_tasks, check_failed_tasks, result, file>>
    /\ UNCHANGED <<sd_vars, clone_ok, input_vars, fn_vars>>

\* execute_parallel_clone(tasks, parallel_tasks, parallel_connections)
execute_parallel_clone_direct ==
    /\ run_pc = "direct"
    /\ run_pc' = "clone"
    /\ \E ts \in DirectTaskLists : execute_parallel_clone_call(ts)
    /\ UNCHANGED <<registry_vars, dir, run_success_count, run_fail_count,
                   run_failed_tasks, check_failed_tasks, result, file>>
    /\ UNCHANGED <<sd_vars, clone_ok, input_vars, fn_vars>>

NextDirect ==
    \/ execute_parallel_pull_direct
    \/ check_repos_parallel_direct
    \/ execute_parallel_clone_direct
    \/ \E t \in Tasks : start_tracked_process(t)
    \/ \E t \in Tasks : process_exit(t)
    \/ \E t \in Tasks : pull_repo_enter(t)
    \/ \E t \in Tasks : pull_repo_precheck(t)
    \/ \E t \in Tasks : pull_repo_wait(t)
    \/ \E t \in Tasks : execute_parallel_pull_collect(t)
    \/ execute_parallel_pull_return
    \/ \E t \in Tasks : check_repo_enter(t)
    \/ \E t \in Tasks : check_repo_wait(t)
    \/ \E t \in Tasks : check_repos_parallel_collect(t)
    \/ check_repos_parallel_return
    \/ \E t \in Tasks : clone_repo_enter(t)
    \/ \E t \in Tasks : clone_repo_delete(t)
    \/ \E t \in Tasks : clone_repo_spawn(t)
    \/ \E t \in Tasks : clone_repo_wait(t)
    \/ \E t \in Tasks : execute_parallel_clone_collect(t)
    \/ execute_parallel_clone_return

SpecDirect == InitDirect /\ [][NextDirect]_vars

\* ------------------------------------------------ batch runs and their files
\* a batch run has been launched on any manifest, with or without a retry
\* manifest left by an earlier run; retry_failed_repos launches
\* run_clone_and_check on the retry manifest itself, which then exists
InitFiles ==
    /\ flow \in {"clone_and_check", "pull"}
    /\ parallel_tasks = 1
    /\ ident = [t \in Tasks |-> t]
    /\ dir = [i \in Tasks |-> "git"]
    /\ config_file \in Paths
    /\ \E kind \in ManifestKinds, stale \in {"absent", "tasks"} :
         file = [p \in Paths |-> IF p = CONFIG_FILE THEN kind ELSE stale]
    /\ config_file = FAILED_REPOS_FILE =>
         /\ flow = "clone_and_check"
         /\ file[FAILED_REPOS_FILE] = "tasks"
         /\ file[CONFIG_FILE] = "tasks"
    /\ run_pc = "launched"
    /\ shutdown_event = FALSE
    /\ InitEngine
    /\ InitFunctions

SpecFiles == InitFiles /\ [][Next]_vars

\* ------------------------------------------------------ diagnostic texts
MaxFragments == 2

\* the phrases the pull rules look for, and one that no rule looks for
PullPhrases ==
    {"not a git repository", "couldn't find remote ref", "no such remote",
     "your local changes", "would be overwritten",
     "fatal: refusing to merge unrelated histories",
     "not possible to fast-forward", "cannot fast-forward",
     "could not resolve host", "failed to connect", "timed out",
     "authentication failed", "permission denied", "merge made by hand"}

FsckPhrases == {"dangling", "error: missing blob", "warning: bad object"}

Texts(phrases) ==
    {t \in SUBSET {Fragment(ph, c) : ph \in phrases, c \in {"lower", "mixed"}} :
        Cardinality(t) <= MaxFragments}

\* a subprocess has exited with a non-zero code and left a diagnostic text
InitDiagnostics ==
    /\ flow = "none"
    /\ parallel_tasks = 1
    /\ ident = [t \in Tasks |-> t]
    /\ dir = [i \in Tasks |-> "git"]
    /\ config_file = CONFIG_FILE
    /\ file = [p \in Paths |-> IF p = CONFIG_FILE THEN "tasks" ELSE "absent"]
    /\ run_pc = "none"
    /\ shutdown_event = FALSE
    /\ InitEngine
    /\ fn_pc = "exited"
    /\ \/ \E t \in Texts(PullPhrases) :
            fn_in = [fn |-> "pull_repo", stderr |-> t]
       \/ \E t \in Texts(FsckPhrases) :
            fn_in = [fn |-> "check_repo", stderr |-> t]
    /\ fn_out = [fn |-> "none"]

\* pull_repo: result_code != 0, the reason is extracted
pull_repo_nonzero_exit ==
    /\ fn_pc = "exited"
    /\ fn_in.fn = "pull_repo"
    /\ fn_pc' = "returned"
    /\ fn_out' = [fn |-> "pull_repo", success |-> FALSE,
                  reason |-> _extract_pull_failure_reason(fn_in.stderr)]
    /\ UNCHANGED <<registry_vars, op_vars, orch_vars, run_vars, sd_vars, hist_vars,
                   input_vars, dir, fn_in>>

\* check_repo: result_return_code != 0
check_repo_returns ==
    /\ fn_pc = "exited"
    /\ fn_in.fn = "check_repo"
    /\ fn_pc' = "returned"
    /\ fn_out' = [fn |-> "check_repo",
                  valid |-> check_repo_nonzero_exit(fn_in.stderr).valid,
                  error_msg |-> check_repo_nonzero_exit(fn_in.stderr).error_msg]
    /\ UNCHANGED <<registry_vars, op_vars, orch_vars, run_vars, sd_vars, hist_vars,
                   input_vars, dir, fn_in>>

NextDiagnostics ==
    \/ pull_repo_nonzero_exit
    \/ check_repo_returns

SpecDiagnostics == InitDiagnostics /\ [][NextDiagnostics]_vars

\* --------------------------------------------------- retry manifest text
\* Texts are sequences of lines and a line is a sequence of the tokens that
\* white space separates.  A group name is one or more tokens, a tag
\* (highland) is a single token or empty.  White space at the start of a line
\* is the token INDENT, two or more white space characters at its end are the
\* token PAD; a single trailing white space character is not kept.
MaxSections == 2

INDENT == " "
PAD == "  "

\* str.lstrip() / str.rstrip() of a line
lstrip(line) == IF line # <<>> /\ Head(line) = INDENT THEN Tail(line) ELSE line
rstrip(line) ==
    IF line # <<>> /\ line[Len(line)] = PAD THEN SubSeq(line, 1, Len(line) - 1) ELSE line

REPOS_DIR == <<"repos">>
ParenTokens == {"(x)", "(y)"}
GroupNames == {<<"A">>, <<"A", "(x)">>, <<"B">>}
Tags == {<<>>, <<"x">>, <<"y">>}
RepoLists == {<<"r1">>, <<"r1", "r2">>}
Owner == "owner"

\* f"({highland})" and the text between the parentheses of such a token
Paren(highland) ==
    IF highland = <<"x">> THEN "(x)"
    ELSE IF highland = <<"y">> THEN "(y)"
    ELSE "(unclassified)"
Inner(token) == IF token = "(x)" THEN <<"x">> ELSE <<"y">>

\* sorted() over the group names: "A" < "A (x)" < "B"
NameRank(name) == IF name = <<"A">> THEN 1 ELSE IF name = <<"A", "(x)">> THEN 2 ELSE 3

RECURSIVE Sorted(_)
Sorted(names) ==
    IF names = {} THEN <<>>
    ELSE LET least == CHOOSE n \in names : \A o \in names : NameRank(n) <= NameRank(o)
         IN  <<least>> \o Sorted(names \ {least})

RECURSIVE Flatten(_)
Flatten(seqs) == IF seqs = <<>> THEN <<>> ELSE Head(seqs) \o Flatten(Tail(seqs))

\* get_group_folder: base / f"{group_name} ({highland})", or base / group_name
get_group_folder(base_repos_dir, group_name, highland) ==
    IF highland # <<>>
    THEN base_repos_dir \o group_name \o <<Paren(highland)>>
    ELSE base_repos_dir \o group_name

\* GROUP_HEADER_PATTERN: "##" at the start of the line, white space and at
\* least one more character, which may be white space too; the name is the
\* shortest text after which the line ends or an "<!-- tag -->" comment runs to
\* the end of the line.  group(1).strip() and group(2).strip() are returned:
\* the name is empty when only white space follows the "##", the tag is empty
\* when only white space stands between the comment marks.
IsGroupHeader(line) == Len(line) >= 2 /\ line[1] = "##"

GroupHeaderMatch(line) ==
    LET body == rstrip(Tail(line))
        n == Len(body)
        fits(k) == \/ k = n
                   \/ /\ k + 2 <= n
                      /\ body[k + 1] = "<!--"
                      /\ body[n] = "-->"
        k == CHOOSE i \in 1..n : fits(i) /\ \A j \in 1..(i - 1) : ~fits(j)
    IN  IF n = 0 THEN [group_name |-> <<>>, highland |-> <<>>]
        ELSE [group_name |-> SubSeq(body, 1, k),
              highland |-> IF k = n THEN <<>> ELSE SubSeq(body, k + 2, n - 1)]

\* REPO_LINE_PATTERN: optional white space, "-", white space and the first
\* token after it
IsRepoLine(line) == Len(rstrip(lstrip(line))) >= 2 /\ lstrip(line)[1] = "-"

RepoLineMatch(line) == lstrip(line)[2]

\* extract_owner: the text after the owner label
extract_owner(content) ==
    LET i == CHOOSE j \in 1..Len(content) :
                 /\ Len(content[j]) >= 2 /\ content[j][1] = "owner:"
                 /\ \A h \in 1..(j - 1) : ~(Len(content[h]) >= 2 /\ content[h][1] = "owner:")
    IN  content[i][2]

RECURSIVE parse_lines(_, _, _, _, _)
parse_lines(lines, owner, base_repos_dir, current_group, current_highland) ==
    IF lines = <<>> THEN <<>>
    ELSE LET line == Head(lines)
         IN  IF IsGroupHeader(line)
             THEN parse_lines(Tail(lines), owner, base_repos_dir,
                              GroupHeaderMatch(line).group_name,
                              GroupHeaderMatch(line).highland)
             ELSE IF IsRepoLine(line) /\ current_group # <<>>
             THEN <<[repo_full |-> <<owner, RepoLineMatch(line)>>,
                     repo_name |-> RepoLineMatch(line),
                     group_folder |-> get_group_folder(base_repos_dir, current_group,
                                                       current_highland),
                     group_name |-> current_group,
                     highland |-> current_highland]>>
                  \o parse_lines(Tail(lines), owner, base_repos_dir, current_group,
                                 current_highland)
             ELSE parse_lines(Tail(lines), owner, base_repos_dir, current_group,
                              current_highland)

\* parse_repo_tasks: one task per bullet line under a group header
parse_repo_tasks(content, owner, base_repos_dir) ==
    parse_lines(content, owner, base_repos_dir, <<>>, <<>>)

\* extract_highland_from_folder: the text of the first "(...)" of the path
extract_highland_from_folder(group_folder) ==
    LET ps == {i \in 1..Len(group_folder) : group_folder[i] \in ParenTokens}
    IN  IF ps = {} THEN <<>>
        ELSE Inner(group_folder[CHOOSE i \in ps : \A j \in ps : i <= j])

\* save_failed_repos: a task without highland gets the one found in its folder
normalized_tasks(failed) ==
    [i \in 1..Len(failed) |->
        [failed[i] EXCEPT !.highland =
            IF @ # <<>> THEN @ ELSE extract_highland_from_folder(failed[i].group_folder)]]

\* build_failed_repo_groups_text: the owner line, then for every group name in
\* sorted order its header, with the highland of its first task, and one bullet
\* line per task of that name
build_failed_repo_groups_text(failed, repo_owner) ==
    LET names == {failed[i].group_name : i \in 1..Len(failed)}
        first(name) == CHOOSE i \in 1..Len(failed) :
                           /\ failed[i].group_name = name
                           /\ \A j \in 1..(i - 1) : failed[j].group_name # name
        group_highlands(name) == failed[first(name)].highland
        group_repos(name) ==
            SelectTasks(failed, {i \in 1..Len(failed) : failed[i].group_name = name})
        header(name) ==
            IF group_highlands(name) # <<>>
            THEN <<"##">> \o name \o <<"<!--">> \o group_highlands(name) \o <<"-->">>
            ELSE <<"##">> \o name
        section(name) ==
            <<header(name)>>
            \o [i \in 1..Len(group_repos(name)) |-> <<"-", group_repos(name)[i].repo_name>>]
            \o << <<>> >>
        order == Sorted(names)
    IN  << <<"#", "title">>, <<>>, <<"owner:", repo_owner>>, <<>> >>
        \o Flatten([i \in 1..Len(order) |-> section(order[i])])

\* a manifest as the format allows it: the owner line and sections, each a
\* header with or without a tag and its bullet lines
ManifestSections ==
    [group_name : GroupNames, highland : Tags, repos : RepoLists]

ManifestText(sections) ==
    << <<"owner:", Owner>>, <<>> >>
    \o Flatten([i \in 1..Len(sections) |->
          << IF sections[i].highland # <<>>
             THEN <<"##">> \o sections[i].group_name
                  \o <<"<!--">> \o sections[i].highland \o <<"-->">>
             ELSE <<"##">> \o sections[i].group_name >>
          \o [j \in 1..Len(sections[i].repos) |-> <<"-", sections[i].repos[j]>>]])

\* a run on a manifest is over and some of its tasks have failed
InitRetry ==
    /\ flow = "none"
    /\ parallel_tasks = 1
    /\ ident = [t \in Tasks |-> t]
    /\ dir = [i \in Tasks |-> "absent"]
    /\ config_file = CONFIG_FILE
    /\ file = [p \in Paths |-> IF p = CONFIG_FILE THEN "tasks" ELSE "absent"]
    /\ run_pc = "none"
    /\ shutdown_event = FALSE
    /\ InitEngine
    /\ fn_pc = "failed"
    /\ \E n \in 1..MaxSections : \E sections \in [1..n -> ManifestSections] :
         LET parsed == parse_repo_tasks(ManifestText(sections),
                                        extract_owner(ManifestText(sections)), REPOS_DIR)
         IN  \E keep \in SUBSET (1..Len(parsed)) :
                /\ keep # {}
                /\ fn_in = [fn |-> "save_failed_repos", parsed |-> parsed,
                            failed_tasks |-> SelectTasks(parsed, keep)]
    /\ fn_out = [fn |-> "none"]

\* save_failed_repos(failed_tasks, failed_repos_file, owner) writes the text
save_failed_repos_write ==
    /\ fn_pc = "failed"
    /\ fn_pc' = "saved"
    /\ fn_out' = [fn |-> "save_failed_repos",
                  content |-> build_failed_repo_groups_text(
                                 normalized_tasks(fn_in.failed_tasks), Owner)]
    /\ UNCHANGED <<registry_vars, op_vars, orch_vars, run_vars, sd_vars, hist_vars,
                   input_vars, dir, fn_in>>

\* the retry run parses the text: parse_repo_groups_detail
parse_repo_groups_detail ==
    /\ fn_pc = "saved"
    /\ fn_pc' = "parsed"
    /\ fn_out' = [fn |-> "parse_repo_groups_detail",
                  content |-> fn_out.content,
                  tasks |-> parse_repo_tasks(fn_out.content,
                                             extract_owner(fn_out.content), REPOS_DIR)]
    /\ UNCHANGED <<registry_vars, op_vars, orch_vars, run_vars, sd_vars, hist_vars,
                   input_vars, dir, fn_in>>

NextRetry ==
    \/ save_failed_repos_write
    \/ parse_repo_groups_detail

SpecRetry == InitRetry /\ [][NextRetry]_vars

\* ------------------------------------------- manifest parsing and rendering
MaxLines == 4

\* no batch run is in progress: a function of the manifest domain is applied
InitNoRun ==
    /\ flow = "none"
    /\ parallel_tasks = 1
    /\ ident = [t \in Tasks |-> t]
    /\ dir = [i \in Tasks |-> "absent"]
    /\ config_file = CONFIG_FILE
    /\ file = [p \in Paths |-> IF p = CONFIG_FILE THEN "tasks" ELSE "absent"]
    /\ run_pc = "none"
    /\ shutdown_event = FALSE
    /\ InitEngine

NoRun ==
    UNCHANGED <<registry_vars, op_vars, orch_vars, run_vars, sd_vars, hist_vars,
                input_vars, dir>>

\* the lines a hand-edited manifest is made of
ManifestLines ==
    { <<>>,
      <<"##", "A">>,
      <<"##", "A", "<!--", "x", "-->">>,
      <<"##", "B">>,
      <<"##", PAD>>,
      <<"-", "r1">>,
      <<"-", "r2">>,
      <<INDENT, "-", "r2">>,
      <<"notes">> }

ManifestTexts == UNION {[1..n -> ManifestLines] : n \in 0..MaxLines}

\* sorted() over repository names
RepoRank(name) == IF name = "r1" THEN 1 ELSE IF name = "r2" THEN 2 ELSE 3

\* a mutation: only the least name is kept
SortedRepos_least_only(names) ==
    IF names = {} THEN <<>>
    ELSE <<CHOOSE n \in names : \A o \in names : RepoRank(n) <= RepoRank(o)>>

RECURSIVE SortedRepos(_)
SortedRepos(names) ==
    IF names = {} THEN <<>>
    ELSE LET least == CHOOSE n \in names : \A o \in names : RepoRank(n) <= RepoRank(o)
         IN  <<least>> \o SortedRepos(names \ {least})

\* parse_groups_and_tags: the non-empty group names in the order of their
\* first header, and for each name the non-empty tag of its last tagged header
parse_groups_and_tags(content) ==
    LET headers == {i \in 1..Len(content) :
                       /\ IsGroupHeader(content[i])
                       /\ GroupHeaderMatch(content[i]).group_name # <<>>}
        name(i) == GroupHeaderMatch(content[i]).group_name
        firsts == {i \in headers : \A j \in headers : j < i => name(j) # name(i)}
        tagged == {i \in headers : GroupHeaderMatch(content[i]).highland # <<>>}
        last(g) == CHOOSE i \in tagged :
                       name(i) = g /\ \A j \in tagged : name(j) = g => j <= i
    IN  [groups |-> [k \in 1..Cardinality(firsts) |->
                        name(CHOOSE i \in firsts :
                                 Cardinality({j \in firsts : j <= i}) = k)],
         tags |-> [g \in {name(i) : i \in tagged} |->
                      GroupHeaderMatch(content[last(g)]).highland]]

\* str.rstrip() of a text: the blank lines at its end go
RECURSIVE rstrip_text(_)
rstrip_text(lines) ==
    IF lines # <<>> /\ lines[Len(lines)] = <<>>
    THEN rstrip_text(SubSeq(lines, 1, Len(lines) - 1))
    ELSE lines

\* a mutation: the names of a group are written in the order of the dict
render_repo_groups_text_unsorted(owner, groups, assignments, tags, keep_empty) ==
    LET repos(group) ==
            LET at == {i \in 1..Len(assignments) : assignments[i].group = group}
            IN  [k \in 1..Cardinality(at) |->
                    assignments[CHOOSE i \in at :
                                    Cardinality({j \in at : j <= i}) = k].name]
        header(group) ==
            IF group \in DOMAIN tags /\ tags[group] # <<>>
            THEN <<"##">> \o group \o <<"<!--">> \o tags[group] \o <<"-->">>
            ELSE <<"##">> \o group
        section(group) ==
            IF repos(group) = <<>> /\ ~keep_empty THEN <<>>
            ELSE <<header(group)>>
                 \o [i \in 1..Len(repos(group)) |-> <<"-", repos(group)[i]>>]
                 \o << <<>> >>
    IN  rstrip_text(<< <<"#", "title">>, <<>>, <<"owner:", owner>>, <<>> >>
                    \o Flatten([i \in 1..Len(groups) |-> section(groups[i])]))

\* render_repo_groups_text: the title and the owner line, then for every
\* entry of `groups` its header, with its tag if it has one, and the sorted
\* names assigned to it; `assignments` is a dict, given here by its items in
\* insertion order.  "\n".join(lines).rstrip() + "\n"
render_repo_groups_text(owner, groups, assignments, tags, keep_empty) ==
    LET repos(group) ==
            SortedRepos({assignments[i].name :
                            i \in {j \in 1..Len(assignments) : assignments[j].group = group}})
        header(group) ==
            IF group \in DOMAIN tags /\ tags[group] # <<>>
            THEN <<"##">> \o group \o <<"<!--">> \o tags[group] \o <<"-->">>
            ELSE <<"##">> \o group
        section(group) ==
            IF repos(group) = <<>> /\ ~keep_empty THEN <<>>
            ELSE <<header(group)>>
                 \o [i \in 1..Len(repos(group)) |-> <<"-", repos(group)[i]>>]
                 \o << <<>> >>
    IN  rstrip_text(<< <<"#", "title">>, <<>>, <<"owner:", owner>>, <<>> >>
                    \o Flatten([i \in 1..Len(groups) |-> section(groups[i])]))

\* the (repo_name, group) pairs of a task list
Pairs(ts) == {<<ts[i].repo_name, ts[i].group_name>> : i \in 1..Len(ts)}

\* the dicts name -> group, as items in insertion order, that can be filled
\* from a set of pairs: one item for every name, with one of its groups
DictsOf(pairs) ==
    LET names == {pr[1] : pr \in pairs}
    IN  {d \in UNION {[1..n -> [name : names, group : {pr[2] : pr \in pairs}]] :
                         n \in {Cardinality(names)}} :
            /\ \A i \in 1..Len(d) : <<d[i].name, d[i].group>> \in pairs
            /\ \A i, j \in 1..Len(d) : d[i].name = d[j].name => i = j}

\* the arguments render_repo_groups_text is called with
RenderGroups == {<<>>, << <<"A">> >>, << <<"B">>, <<"A">> >>, << <<"A">>, <<"B">> >>}
RenderNames == {"r1", "r2", "r3"}
RenderAssignments ==
    {d \in UNION {[1..n -> [name : RenderNames, group : {<<"A">>, <<"B">>}]] : n \in 0..2} :
        \A i, j \in 1..Len(d) : d[i].name = d[j].name => i = j}
RenderTags == {<<>>, [g \in {<<"A">>} |-> <<"x">>]}

InitManifest ==
    /\ InitNoRun
    /\ \/ /\ fn_pc = "text"
          /\ \E content \in ManifestTexts :
               fn_in = [fn |-> "parse_repo_tasks", content |-> content]
       \/ /\ fn_pc = "args"
          /\ \E groups \in RenderGroups, assignments \in RenderAssignments,
                tags \in RenderTags, keep_empty \in BOOLEAN :
               fn_in = [fn |-> "render_repo_groups_text", owner |-> Owner,
                        groups |-> groups, assignments |-> assignments,
                        tags |-> tags, keep_empty |-> keep_empty]
    /\ fn_out = [fn |-> "none"]

\* parse_repo_tasks(content, owner, REPOS_DIR), together with
\* parse_groups_and_tags(content)
parse_repo_tasks_call ==
    /\ fn_pc = "text"
    /\ fn_pc' = "parsed"
    /\ fn_out' = [fn |-> "parse_repo_tasks",
                  tasks |-> parse_repo_tasks(fn_in.content, Owner, REPOS_DIR),
                  groups |-> parse_groups_and_tags(fn_in.content).groups,
                  tags |-> parse_groups_and_tags(fn_in.content).tags]
    /\ NoRun
    /\ UNCHANGED fn_in

\* the parsed groups, tags and assignments are rendered again
render_parsed ==
    /\ fn_pc = "parsed"
    /\ fn_pc' = "rendered"
    /\ \E assignments \in DictsOf(Pairs(fn_out.tasks)), keep_empty \in BOOLEAN :
         fn_out' = [fn |-> "render_repo_groups_text",
                    tasks |-> fn_out.tasks,
                    assignments |-> assignments,
                    text |-> render_repo_groups_text(Owner, fn_out.groups, assignments,
                                                     fn_out.tags, keep_empty)]
    /\ NoRun
    /\ UNCHANGED fn_in

\* and the rendered text is parsed
parse_rendered ==
    /\ fn_pc = "rendered"
    /\ fn_in.fn = "parse_repo_tasks"
    /\ fn_pc' = "reparsed"
    /\ fn_out' = [fn |-> "parse_repo_tasks",
                  tasks |-> fn_out.tasks,
                  assignments |-> fn_out.assignments,
                  text |-> fn_out.text,
                  again |-> parse_repo_tasks(fn_out.text, Owner, REPOS_DIR)]
    /\ NoRun
    /\ UNCHANGED fn_in

\* render_repo_groups_text called with arguments of its own
render_repo_groups_text_call ==
    /\ fn_pc = "args"
    /\ fn_pc' = "rendered"
    /\ fn_out' = [fn |-> "render_repo_groups_text",
                  text |-> render_repo_groups_text(fn_in.owner, fn_in.groups,
                                                   fn_in.assignments, fn_in.tags,
                                                   fn_in.keep_empty)]
    /\ NoRun
    /\ UNCHANGED fn_in

NextManifest ==
    \/ parse_repo_tasks_call
    \/ render_parsed
    \/ parse_rendered
    \/ render_repo_groups_text_call

SpecManifest == InitManifest /\ [][NextManifest]_vars

\* ------------------------------------------------------ protocol probe
\* get_repo_url runs `ssh -T git@github.com` with a timeout of 3 seconds.  The
\* probe completes with two byte strings, or subprocess.run raises.
ProbePhrases == {"successfully authenticated", "permission denied (publickey)"}

ProbeTexts == SUBSET {Fragment(phrase, case) : phrase \in ProbePhrases,
                                                case \in {"lower", "mixed"}}

\* what subprocess.run can raise: the timeout, a missing ssh client, another
\* SubprocessError, an ssh file that may not be executed, any other OSError
ProbeErrors ==
    {"TimeoutExpired", "FileNotFoundError", "SubprocessError", "PermissionError",
     "OSError"}

ProbeResults ==
    [kind : {"completed"}, stdout : ProbeTexts, stderr : ProbeTexts, utf8 : BOOLEAN]
      \cup [kind : ProbeErrors]

RepoFulls == {<<Owner, "/", "r1">>, <<Owner, "/", "r2">>}

\* except (subprocess.TimeoutExpired, FileNotFoundError, subprocess.SubprocessError)
probe_except(error) ==
    error \in {"TimeoutExpired", "FileNotFoundError", "SubprocessError"}

\* 'successfully authenticated' in output
confirmed(output) == Contains(output, "successfully authenticated")

\* get_repo_url(repo_full) for a result of the probe: the address it returns,
\* or the exception that leaves it
get_repo_url(repo_full, probe) ==
    IF probe.kind = "completed"
    THEN IF ~probe.utf8
         THEN [raised |-> "UnicodeDecodeError", url |-> <<>>]
         ELSE IF confirmed(probe.stdout \cup probe.stderr)
         THEN [raised |-> "none", url |-> <<"git@github.com:">> \o repo_full \o <<".git">>]
         ELSE [raised |-> "none", url |-> <<"https://github.com/">> \o repo_full \o <<".git">>]
    ELSE IF probe_except(probe.kind)
    THEN [raised |-> "none", url |-> <<"https://github.com/">> \o repo_full \o <<".git">>]
    ELSE [raised |-> probe.kind, url |-> <<>>]

InitProbe ==
    /\ InitNoRun
    /\ fn_pc = "call"
    /\ \E repo_full \in RepoFulls, probe \in ProbeResults :
         fn_in = [fn |-> "get_repo_url", repo_full |-> repo_full, probe |-> probe]
    /\ fn_out = [fn |-> "none"]

\* clone_repo calls get_repo_url(repo_full), outside any try block
get_repo_url_call ==
    /\ fn_pc = "call"
    /\ fn_out' = get_repo_url(fn_in.repo_full, fn_in.probe) @@ [fn |-> "get_repo_url"]
    /\ fn_pc' = "returned"
    /\ UNCHANGED fn_in
    /\ NoRun

\* clone_repo after the call: it builds the git clone command with the
\* address, or is left by the exception of get_repo_url
clone_repo_after_get_repo_url ==
    /\ fn_pc = "returned"
    /\ fn_pc' = IF fn_out.raised = "none" THEN "git_cmd" ELSE "clone_repo_raised"
    /\ fn_out' = [fn_out EXCEPT !.fn = "clone_repo"]
    /\ UNCHANGED fn_in
    /\ NoRun

NextProbe ==
    \/ get_repo_url_call
    \/ clone_repo_after_get_repo_url

SpecProbe == InitProbe /\ [][NextProbe]_vars

\* ---------------------------------------------- process registry calls
\* One call of a registry operation, statement by statement, with subprocess
\* primitives that can fail: terminate() (taskkill on Windows), wait(timeout)
\* and kill() either do their work or raise.  fn_in is the call and the
\* registry at the call, fn_out the registry and the locals of the call.
Popen == {"p1", "p2"}

RegistryOperations ==
    {"terminate_process", "untrack_process", "terminate_all_tracked_processes",
     "request_shutdown"}

\* list(_active_processes): the tracked processes in any order
snapshots(set) == {order \in [1..Cardinality(set) -> set] : Range(order) = set}

\* the statements of terminate_process inside a try block with the handler
\* `except Exception: pass` (or, for wait, the handler that calls kill)
caught_without_kill(statement) == statement \in {"terminate", "wait"}

caught(statement) == statement \in {"terminate", "wait", "kill"}

\* where terminate_process goes on after a statement
next_statement(statement) ==
    CASE statement = "terminate" -> "wait"
      [] statement = "wait" -> "kill"
      [] statement = "kill" -> "done"

\* a statement raises: the handler swallows the exception, or it leaves the call
raise(statement) ==
    /\ fn_out' = [fn_out EXCEPT !.failed = @ \cup {<<fn_out.process, statement>>}]
    /\ fn_pc' = IF caught(statement) THEN next_statement(statement) ELSE "raised"

InitRegistry ==
    /\ InitNoRun
    /\ fn_pc = "call"
    /\ \E op \in RegistryOperations, p \in Popen, running \in SUBSET Popen,
          tracked \in SUBSET Popen :
         /\ op \in {"terminate_all_tracked_processes", "request_shutdown"} => p = "p1"
         /\ fn_in = [fn |-> op, process |-> p, running |-> running, tracked |-> tracked]
         /\ fn_out = [fn |-> op, process |-> p, running |-> running, tracked |-> tracked,
                      flag |-> FALSE, processes |-> <<>>, signals |-> {}, failed |-> {}]

\* untrack_process(process)
untrack_process_call ==
    /\ fn_pc = "call"
    /\ fn_in.fn = "untrack_process"
    /\ fn_out' = [fn_out EXCEPT !.tracked = untrack_process(@, fn_in.process)]
    /\ fn_pc' = "returned"
    /\ UNCHANGED fn_in
    /\ NoRun

\* terminate_process(process) up to its poll(): an exited process returns at once
terminate_process_call ==
    /\ fn_pc = "call"
    /\ fn_in.fn = "terminate_process"
    /\ fn_pc' = IF fn_in.process \in fn_out.running THEN "terminate" ELSE "returned"
    /\ UNCHANGED <<fn_in, fn_out>>
    /\ NoRun

\* terminate_all_tracked_processes(): the snapshot taken under the lock
terminate_all_tracked_processes_call ==
    /\ fn_pc = "call"
    /\ fn_in.fn = "terminate_all_tracked_processes"
    /\ \E processes \in snapshots(fn_out.tracked) :
         fn_out' = [fn_out EXCEPT !.processes = processes]
    /\ fn_pc' = "loop"
    /\ UNCHANGED fn_in
    /\ NoRun

\* request_shutdown(): sets the flag and calls terminate_all_tracked_processes
request_shutdown_call ==
    /\ fn_pc = "call"
    /\ fn_in.fn = "request_shutdown"
    /\ \E processes \in snapshots(fn_out.tracked) :
         fn_out' = [fn_out EXCEPT !.flag = TRUE, !.processes = processes]
    /\ fn_pc' = "loop"
    /\ UNCHANGED fn_in
    /\ NoRun

\* for process in processes: terminate_process(process) up to its poll(); for
\* an exited process the call returns and untrack_process(process) follows
terminate_all_tracked_processes_loop ==
    /\ fn_pc = "loop"
    /\ IF fn_out.processes = <<>>
       THEN /\ fn_pc' = "returned"
            /\ fn_out' = fn_out
       ELSE IF Head(fn_out.processes) \in fn_out.running
       THEN /\ fn_pc' = "terminate"
            /\ fn_out' = [fn_out EXCEPT !.process = Head(fn_out.processes),
                                        !.processes = Tail(@)]
       ELSE /\ fn_pc' = "loop"
            /\ fn_out' = [fn_out EXCEPT
                            !.processes = Tail(@),
                            !.tracked = untrack_process(@, Head(fn_out.processes))]
    /\ UNCHANGED fn_in
    /\ NoRun

\* process.terminate(), or taskkill on Windows
process_terminate ==
    /\ fn_pc = "terminate"
    /\ \/ raise("terminate")
       \/ /\ fn_out' = [fn_out EXCEPT !.signals = @ \cup {<<fn_out.process, "terminate">>}]
          /\ fn_pc' = next_statement("terminate")
    /\ UNCHANGED fn_in
    /\ NoRun

\* process.wait(timeout=timeout): returns when the process has exited, raises
\* TimeoutExpired when it is still running
process_wait ==
    /\ fn_pc = "wait"
    /\ IF fn_out.process \in fn_out.running
       THEN raise("wait")
       ELSE fn_pc' = "done" /\ fn_out' = fn_out
    /\ UNCHANGED fn_in
    /\ NoRun

\* process.kill()
process_kill ==
    /\ fn_pc = "kill"
    /\ \/ raise("kill")
       \/ /\ fn_out' = [fn_out EXCEPT !.signals = @ \cup {<<fn_out.process, "kill">>},
                                      !.running = @ \ {fn_out.process}]
          /\ fn_pc' = next_statement("kill")
    /\ UNCHANGED fn_in
    /\ NoRun

\* terminate_process returns: to its caller, or to the loop of
\* terminate_all_tracked_processes, which untracks the process
terminate_process_return ==
    /\ fn_pc = "done"
    /\ IF fn_in.fn = "terminate_process"
       THEN /\ fn_pc' = "returned"
            /\ fn_out' = fn_out
       ELSE /\ fn_pc' = "loop"
            /\ fn_out' = [fn_out EXCEPT !.tracked = untrack_process(@, fn_out.process)]
    /\ UNCHANGED fn_in
    /\ NoRun

\* a subprocess exits, by itself or after terminate(), while the call runs
subprocess_exits ==
    /\ fn_pc \in {"loop", "terminate", "wait", "kill"}
    /\ \E p \in fn_out.running :
         fn_out' = [fn_out EXCEPT !.running = @ \ {p}]
    /\ UNCHANGED <<fn_pc, fn_in>>
    /\ NoRun

\* the operation that started an exited subprocess untracks it in its own thread
worker_untracks ==
    /\ fn_pc \in {"loop", "terminate", "wait", "kill"}
    /\ \E p \in fn_out.tracked \ fn_out.running :
         fn_out' = [fn_out EXCEPT !.tracked = untrack_process(@, p)]
    /\ UNCHANGED <<fn_pc, fn_in>>
    /\ NoRun

NextRegistry ==
    \/ untrack_process_call
    \/ terminate_process_call
    \/ terminate_all_tracked_processes_call
    \/ request_shutdown_call
    \/ terminate_all_tracked_processes_loop
    \/ process_terminate
    \/ process_wait
    \/ process_kill
    \/ terminate_process_return
    \/ subprocess_exits
    \/ worker_untracks

SpecRegistry == InitRegistry /\ [][NextRegistry]_vars

\* ------------------------------------------------------- reconciliation
\* A file is its byte-order mark and its lines, each with the line ending that
\* follows it: "LF", "CRLF", or "none" for a last line that is not terminated.
MaxBodyLines == 3

UNCLASSIFIED == <<"unclassified">>
OwnerLine == <<"owner:", Owner>>

SyncLines ==
    { <<>>, <<"##", "A">>, <<"##">> \o UNCLASSIFIED, <<"-", "r1">>, <<"-", "r2">> }

SyncBodies == UNION {[1..n -> SyncLines] : n \in 0..MaxBodyLines}

\* a file: the owner line and a body; every line ends with LF, or every line
\* with CRLF, or the owner line with CRLF and the others with LF; the last
\* line may be left without its line ending when it is not empty
RawFile(bom, body, style, terminated) ==
    [bom |-> bom,
     lines |-> [i \in 1..(Len(body) + 1) |->
                  [text |-> IF i = 1 THEN OwnerLine ELSE body[i - 1],
                   eol |-> IF i = Len(body) + 1 /\ ~terminated THEN "none"
                           ELSE IF style = "CRLF" \/ (style = "mixed" /\ i = 1)
                                THEN "CRLF" ELSE "LF"]]]

\* the names the remote listing returns, and the lists apply_sync is given
RemoteListings == {<<"r1">>, <<"r2", "r1">>, <<"r3", "r2">>, <<"r3", "r3">>}

\* read_text_preserve_encoding and content.splitlines()
read_text_preserve_encoding(raw) ==
    [content |-> [i \in 1..Len(raw.lines) |-> raw.lines[i].text],
     encoding |-> IF raw.bom THEN "utf-8-sig" ELSE "utf-8",
     newline |-> IF \E i \in 1..Len(raw.lines) : raw.lines[i].eol = "CRLF"
                 THEN "CRLF" ELSE "LF",
     has_trailing_newline |-> raw.lines # <<>> /\ raw.lines[Len(raw.lines)].eol # "none"]

\* write_text_preserve_encoding(path, newline.join(lines), encoding, newline,
\* has_trailing_newline): every line but the last is followed by `newline`;
\* an empty last line leaves the text ending with `newline`, any other last
\* line gets `newline` appended when has_trailing_newline
write_text_preserve_encoding(lines, encoding, newline, has_trailing_newline) ==
    LET n == Len(lines)
        ended == [i \in 1..n |-> [text |-> lines[i], eol |-> newline]]
    IN  [bom |-> encoding = "utf-8-sig",
         lines |-> IF n = 0 THEN <<>>
                   ELSE IF lines[n] = <<>> /\ n >= 2 THEN SubSeq(ended, 1, n - 1)
                   ELSE IF lines[n] = <<>>
                        THEN IF has_trailing_newline THEN ended ELSE <<>>
                   ELSE IF has_trailing_newline THEN ended
                   ELSE [ended EXCEPT ![n].eol = "none"]]

\* line.strip() == ""
IsBlank(line) == rstrip(lstrip(line)) = <<>>

\* extract_existing_repos: the name of every bullet line of the text
extract_existing_repos(content) ==
    {RepoLineMatch(content[i]) : i \in {j \in 1..Len(content) : IsRepoLine(content[j])}}

\* sorted() of a list of repository names
sorted(names) ==
    Flatten([k \in 1..3 |-> SelectSeq(names, LAMBDA x : RepoRank(x) = k)])

\* the lines GROUP_HEADER_PATTERN matches
group_indices(lines) == {i \in 1..Len(lines) : IsGroupHeader(lines[i])}

\* the last header named UNCLASSIFIED, 0 when there is none
LastUnclassified(lines) ==
    LET named == {i \in group_indices(lines) :
                     GroupHeaderMatch(lines[i]).group_name = UNCLASSIFIED}
    IN  IF named = {} THEN 0 ELSE CHOOSE i \in named : \A j \in named : j <= i

\* the section of the header at `start` ends before the next header
SectionEnd(lines, start) ==
    LET after == {h \in group_indices(lines) : h > start}
    IN  IF after = {} THEN Len(lines)
        ELSE (CHOOSE h \in after : \A j \in after : h <= j) - 1

Section(lines, start) ==
    [start |-> start, end |-> IF start = 0 THEN 0 ELSE SectionEnd(lines, start)]

\* unclassified_section: the index of the header and of the last line of its
\* section; start = 0 stands for None
unclassified_section(lines) == Section(lines, LastUnclassified(lines))

\* a mutation: the names already in the section are not looked at
existing_in_section_none(lines, sec) == {}

\* existing_in_section: the names of the bullet lines of the section
existing_in_section(lines, sec) ==
    {RepoLineMatch(lines[i]) :
        i \in {j \in (sec.start + 1)..sec.end : IsRepoLine(lines[j])}}

\* insert_at: behind the last line of the section that is not blank
insert_at(lines, sec) ==
    CHOOSE k \in sec.start..sec.end :
        /\ k = sec.start \/ ~IsBlank(lines[k])
        /\ \A j \in (k + 1)..sec.end : IsBlank(lines[j])

Bullets(names) == [i \in 1..Len(names) |-> <<"-", names[i]>>]

\* the section exists: one bullet per entry of to_add is inserted
InsertBullets(lines, to_add, at) ==
    IF to_add = <<>> THEN [lines |-> lines, added_count |-> 0]
    ELSE [lines |-> SubSeq(lines, 1, at) \o Bullets(to_add)
                    \o SubSeq(lines, at + 1, Len(lines)),
          added_count |-> Len(to_add)]

\* there is no section: a blank line if the text does not end with one, the
\* header and one bullet per entry of new_repos
AppendSection(lines, new_repos) ==
    [lines |-> lines
               \o (IF lines # <<>> /\ ~IsBlank(lines[Len(lines)]) THEN << <<>> >> ELSE <<>>)
               \o << <<"##">> \o UNCLASSIFIED \o <<"<!--">> \o UNCLASSIFIED \o <<"-->">> >>
               \o Bullets(new_repos),
     added_count |-> Len(new_repos)]

AddToSection(lines, new_repos, sec) ==
    IF new_repos = <<>> THEN [lines |-> lines, added_count |-> 0]
    ELSE IF sec.start = 0 THEN AppendSection(lines, new_repos)
    ELSE InsertBullets(lines,
                       SelectSeq(new_repos,
                                 LAMBDA x : x \notin existing_in_section(lines, sec)),
                       insert_at(lines, sec))

\* add_repos_to_unclassified(lines, new_repos) -> (lines, added_count)
add_repos_to_unclassified(lines, new_repos) ==
    AddToSection(lines, new_repos, unclassified_section(lines))

\* apply_sync, after the read: the file is written only when something was
\* added
WriteUpdated_always(raw, read, updated) ==
    [raw |-> write_text_preserve_encoding(updated.lines, read.encoding,
                                          read.newline, read.has_trailing_newline),
     written |-> TRUE,
     success |-> TRUE,
     updated_lines |-> updated.lines,
     added_count |-> updated.added_count]

\* apply_sync after add_repos_to_unclassified: it returns (True, "") without
\* writing when added_count is 0, and after the write otherwise
WriteUpdated(raw, read, updated) ==
    [raw |-> IF updated.added_count = 0 THEN raw
             ELSE write_text_preserve_encoding(updated.lines, read.encoding,
                                               read.newline, read.has_trailing_newline),
     written |-> updated.added_count # 0,
     success |-> TRUE,
     updated_lines |-> updated.lines,
     added_count |-> updated.added_count]

ApplyToText(raw, read, new_repos) ==
    WriteUpdated(raw, read, add_repos_to_unclassified(read.content, new_repos))

\* apply_sync(config_file, new_repos): the file it leaves, with the
\* updated_lines and the added_count of its add_repos_to_unclassified call
apply_sync(raw, new_repos) ==
    ApplyToText(raw, read_text_preserve_encoding(raw), new_repos)

\* a manifest and either a remote listing to preview, or the list of names
\* an earlier preview has left for apply_sync
InitSync ==
    /\ InitNoRun
    /\ \E body \in SyncBodies, bom \in BOOLEAN, style \in {"LF", "CRLF", "mixed"},
          terminated \in BOOLEAN, names \in RemoteListings :
         /\ IF terminated \/ body = <<>> THEN TRUE ELSE body[Len(body)] # <<>>
         /\ \/ /\ fn_pc = "start"
               /\ fn_in = [fn |-> "preview_sync", remote |-> names,
                           raw |-> RawFile(bom, body, style, terminated)]
               /\ fn_out = [fn |-> "none"]
            \/ /\ fn_pc = "previewed"
               /\ fn_in = [fn |-> "apply_sync", remote |-> <<>>,
                           raw |-> RawFile(bom, body, style, terminated)]
               /\ fn_out = [fn |-> "none", new_repos |-> names,
                            raw |-> RawFile(bom, body, style, terminated)]

\* preview_sync: the remote names that no bullet line of the file has
preview_sync ==
    /\ fn_pc = "start"
    /\ fn_pc' = "previewed"
    /\ fn_out' = [fn |-> "preview_sync", raw |-> fn_in.raw,
                  new_repos |-> sorted(SelectSeq(fn_in.remote,
                      LAMBDA x : x \notin extract_existing_repos(
                                     read_text_preserve_encoding(fn_in.raw).content)))]
    /\ NoRun
    /\ UNCHANGED fn_in

\* apply_sync(config_file, new_repos)
apply_sync_call ==
    /\ fn_pc = "previewed"
    /\ fn_pc' = "applied"
    /\ fn_out' = apply_sync(fn_out.raw, fn_out.new_repos)
                  @@ [fn |-> "apply_sync", new_repos |-> fn_out.new_repos]
    /\ NoRun
    /\ UNCHANGED fn_in

\* apply_sync with the same list, on the file the first call has left
apply_sync_again ==
    /\ fn_pc = "applied"
    /\ fn_pc' = "applied_again"
    /\ fn_out' = apply_sync(fn_out.raw, fn_out.new_repos)
                  @@ [fn |-> "apply_sync", new_repos |-> fn_out.new_repos,
                      first |-> fn_out.raw]
    /\ NoRun
    /\ UNCHANGED fn_in

NextSync ==
    \/ preview_sync
    \/ apply_sync_call
    \/ apply_sync_again

SpecSync == InitSync /\ [][NextSync]_vars

\* ------------------------------------------------------------------ claims
NoCancellation == sd_pc = "idle"
OrchestratorReturned == orch_pc = "returned"
Entries(list, t) == {i \in 1..Len(list) : list[i].task = t}

\* C1: an orchestrator run over a non-empty task list during which cancellation
\* is never requested returns success_count + fail_count = number of tasks and
\* len(failed_tasks) = fail_count, whatever the completion order and whichever
\* operations fail or raise.
C1_CountsAddUp ==
    (OrchestratorReturned /\ NoCancellation) =>
        /\ success_count + fail_count = Len(tasks)
        /\ Len(failed_tasks) = fail_count

C1_Witness ==
    /\ OrchestratorReturned
    /\ NoCancellation
    /\ success_count >= 1
    /\ \E t \in Range(tasks) : future[t] = "raise"

\* C2: in clone_repo, pull_repo and check_repo, when the flag is set at the
\* moment the wait on the subprocess returns, the operation reports the
\* cancellation failure, also when the subprocess exited with code 0.
C2_CancellationWins ==
    \A w \in woke : w.flag => w.outcome = "canceled"

C2_Witness ==
    \E w \in woke : w.flag /\ w.state = "exit0" /\ w.outcome = "canceled"

\* C3: whenever clone_repo returns failure after it started the clone
\* subprocess, the target directory does not exist on return.
C3_NoPartialDirectory ==
    \A w \in woke : (w.proc = "clone" /\ w.outcome # "ok") => w.dir = "absent"

\* C4: when request_shutdown() returns, the flag is set and every subprocess
\* that was tracked when it was called has been terminated and untracked.
C4_ShutdownPostcondition ==
    sd_pc = "returned" =>
        /\ sd_flag_at_return
        /\ \A p \in sd_at_call : p \notin active_processes /\ ~Alive(p)

\* C5: while the flag is set a draining orchestrator tallies no further result
\* and fires no further progress callback; and a return with
\* success_count + fail_count < total happens only in a run during which
\* cancellation was requested.
C5_StopsCollecting ==
    /\ [][(orch_pc \in {"draining", "joining"} /\ shutdown_event) =>
             UNCHANGED <<success_count, fail_count, failed_tasks, progress_calls>>]_vars
    /\ []((OrchestratorReturned /\ success_count + fail_count < Len(tasks))
             => ~NoCancellation)

C5_Witness ==
    /\ OrchestratorReturned
    /\ shutdown_event
    /\ success_count + fail_count >= 1
    /\ success_count + fail_count < Len(tasks)

\* C6: cancellation is not an error: no operation that ended because of
\* cancellation (it returned the cancellation result, or request_shutdown
\* terminated its subprocess) is counted in fail_count or is in failed_tasks,
\* and every task tallied as a success is a success of the run's result, the
\* tasks that failed the post-clone check excepted.
C6_CancellationIsNotFailure ==
    /\ \A i \in 1..Len(failed_tasks) :
          /\ future[failed_tasks[i].task] # "canceled"
          /\ proc_state[failed_tasks[i].task] # "killed"
    /\ (run_pc = "done" /\ flow = "pull") =>
          result.success = Cardinality({t \in yielded : future[t] = "ok"})
    /\ (run_pc = "done" /\ flow = "clone_and_check") =>
          result.success =
             Cardinality({t \in clone_ok : Entries(check_failed_tasks, t) = {}})

\* C7: when the target directory exists, has the .git marker and passes the
\* integrity check, clone_repo returns success without starting a clone
\* subprocess and without deleting the directory.
C7_IncrementalSkip ==
    \A t \in Tasks :
        ic_valid[t] =>
            /\ op_pc[t] = "done"
            /\ future[t] = "ok"
            /\ ~spawned_clone[t]
            /\ ~removed_dir[t]

C7_Witness ==
    \E t \in Tasks : ic_valid[t] /\ future[t] = "ok" /\ dir[ident[t]] = "git"

\* C8: in run_clone_and_check without cancellation every task that fails the
\* post-clone check leaves the success tally, joins the failure tally and is
\* appended to failed_tasks exactly once: success + fail = total,
\* fail = len(failed_tasks), success >= 0.
C8_CheckFailuresMoved ==
    (run_pc = "done" /\ flow = "clone_and_check" /\ NoCancellation) =>
        /\ result.success + result.fail = result.total
        /\ result.fail = Len(run_failed_tasks)
        /\ result.success >= 0
        /\ result.success = Cardinality(clone_ok) - Len(check_failed_tasks)
        /\ \A i \in 1..Len(check_failed_tasks) :
              /\ check_failed_tasks[i].task \in clone_ok
              /\ Cardinality(Entries(run_failed_tasks, check_failed_tasks[i].task)) = 1

C8_Witness ==
    /\ run_pc = "done"
    /\ flow = "clone_and_check"
    /\ NoCancellation
    /\ Len(check_failed_tasks) >= 1
    /\ result.success >= 1

\* C9: an operation that raises is one failure and its task is in failed_tasks
\* (with reason "exception" for pull); a failed or raised task never keeps
\* another task of the batch from being executed and tallied.
C9_FailureIsolated ==
    (OrchestratorReturned /\ NoCancellation) =>
        /\ yielded = Range(tasks)
        /\ \A t \in Range(tasks) :
              /\ op_pc[t] = "done"
              /\ future[t] # "ok" => Cardinality(Entries(failed_tasks, t)) = 1
              /\ future[t] = "ok" => Entries(failed_tasks, t) = {}
              /\ (future[t] = "raise" /\ flow = "pull") =>
                    \A i \in Entries(failed_tasks, t) :
                        failed_tasks[i].reason = "exception"
        /\ success_count = Cardinality({t \in Range(tasks) : future[t] = "ok"})
        /\ fail_count = Cardinality({t \in Range(tasks) : future[t] # "ok"})

C9_Witness ==
    /\ OrchestratorReturned
    /\ NoCancellation
    /\ \E t, u \in yielded : future[t] = "raise" /\ future[u] = "ok"

\* C10: in a run over n > 0 tasks without cancellation progress_cb is invoked
\* n + 1 times: first with (0, n, 0, 0), then once per completed task with
\* done_count one higher; every call has done = success + fail <= n, and the
\* last one has done = n with the returned counts.
C10_ProgressSequence ==
    NoCancellation =>
        /\ \A i \in 1..Len(progress_calls) :
              /\ progress_calls[i][1] = i - 1
              /\ progress_calls[i][2] = Len(tasks)
              /\ progress_calls[i][1] = progress_calls[i][3] + progress_calls[i][4]
              /\ progress_calls[i][1] <= Len(tasks)
        /\ orch_pc # "idle" => /\ Len(progress_calls) >= 1
                               /\ progress_calls[1] = <<0, Len(tasks), 0, 0>>
        /\ OrchestratorReturned =>
              /\ Len(progress_calls) = Len(tasks) + 1
              /\ progress_calls[Len(progress_calls)] =
                    <<Len(tasks), Len(tasks), success_count, fail_count>>

C10_Witness ==
    /\ OrchestratorReturned
    /\ NoCancellation
    /\ Len(progress_calls) = Len(tasks) + 1
    /\ success_count >= 1
    /\ fail_count >= 1

\* C11: an orchestrator called with zero tasks returns (0, 0, []) at once: it
\* fires no progress callback, submits no operation to a pool and starts no
\* subprocess.
C11_ZeroTasks ==
    (flow = "direct" /\ run_pc # "direct" /\ tasks = <<>>) =>
        /\ orch_pc \in {"joining", "returned"}
        /\ success_count = 0
        /\ fail_count = 0
        /\ failed_tasks = <<>>
        /\ progress_calls = <<>>
        /\ \A t \in Tasks : op_pc[t] = "idle" /\ future[t] = "none"
                                /\ proc_kind[t] = "none"
        /\ active_processes = {}

C11_Witness ==
    /\ flow = "direct"
    /\ run_pc = "cloned"
    /\ tasks = <<>>
    /\ orch_pc = "returned"
    /\ shutdown_event

C13_ManifestUntouched ==
    [][file'[config_file] = file[config_file]]_vars

\* C14: when a batch run has returned a result, the retry manifest exists
\* exactly when the run recorded a failed task, and the result's failed_file
\* is its path exactly then and is empty otherwise.
C14_RetryManifestIffFailures ==
    run_pc = "done" =>
        /\ (file[FAILED_REPOS_FILE] # "absent") <=> (run_failed_tasks # <<>>)
        /\ run_failed_tasks # <<>> => /\ file[FAILED_REPOS_FILE] = "written"
                                      /\ result.failed_file = FAILED_REPOS_FILE
        /\ run_failed_tasks = <<>> => result.failed_file = ""

\* C15: parsing the retry manifest written for a run gives the run's failed
\* tasks and nothing else, each as many times as it failed, with the same repo
\* name, group name, tag, repo_full and group folder.
Occurrences(list, task) == Cardinality({i \in 1..Len(list) : list[i] = task})

C15_RetryRoundTrip ==
    fn_pc = "parsed" =>
        \A task \in Range(fn_out.tasks) \cup Range(fn_in.failed_tasks) :
            Occurrences(fn_out.tasks, task) = Occurrences(fn_in.failed_tasks, task)

\* C16: a pull run that completes returns total = number of parsed tasks,
\* success and fail = the counts of execute_parallel_pull, and failed_reasons
\* with one entry per failed task, giving the reason recorded for that task.
C16_PullResultShape ==
    (run_pc = "done" /\ flow = "pull") =>
        /\ result.total = NumTasks
        /\ result.success = success_count
        /\ result.fail = fail_count
        /\ Cardinality(DOMAIN result.failed_reasons) = Len(failed_tasks)
        /\ \A i \in 1..Len(failed_tasks) :
              /\ ident[failed_tasks[i].task] \in DOMAIN result.failed_reasons
              /\ result.failed_reasons[ident[failed_tasks[i].task]]
                    = failed_tasks[i].reason

\* C17: the pull failure reason is the code of the first rule, in the order
\* not_git_repo, remote_ref_missing, local_changes_conflict,
\* unrelated_histories, not_fast_forward, network_error, auth_error, one of
\* whose phrases occurs in the text in any case, and unknown when no rule
\* matches or the text is empty.
PullRules ==
    << [code |-> "not_git_repo", phrases |-> {"not a git repository"}],
       [code |-> "remote_ref_missing",
        phrases |-> {"couldn't find remote ref", "no such remote"}],
       [code |-> "local_changes_conflict",
        phrases |-> {"your local changes", "would be overwritten"}],
       [code |-> "unrelated_histories",
        phrases |-> {"fatal: refusing to merge unrelated histories"}],
       [code |-> "not_fast_forward",
        phrases |-> {"not possible to fast-forward", "cannot fast-forward"}],
       [code |-> "network_error",
        phrases |-> {"could not resolve host", "failed to connect", "timed out"}],
       [code |-> "auth_error",
        phrases |-> {"authentication failed", "permission denied"}] >>

RuleMatches(i, text) == \E f \in text : f.phrase \in PullRules[i].phrases

C17_FirstMatchWins ==
    (fn_pc = "returned" /\ fn_in.fn = "pull_repo") =>
        LET hits == {i \in 1..Len(PullRules) : RuleMatches(i, fn_in.stderr)}
        IN  /\ hits = {} => fn_out.reason = "unknown"
            /\ hits # {} =>
                  fn_out.reason = PullRules[CHOOSE i \in hits : \A j \in hits : i <= j].code

C17_Witness ==
    /\ fn_pc = "returned"
    /\ fn_in.fn = "pull_repo"
    /\ fn_in.stderr = {Fragment("could not resolve host", "mixed"),
                       Fragment("authentication failed", "mixed")}
    /\ fn_out.reason = "network_error"

\* C20: when fsck exits non-zero, check_repo reports valid exactly when the
\* diagnostic text consists of dangling-object warnings only; a text holding
\* anything else, alone or next to dangling warnings, is reported invalid
\* with the start of the diagnostic as the reason.
OnlyDangling(stderr) == stderr # {} /\ \A f \in stderr : f.phrase = "dangling"

C20_DanglingOnlyIsValid ==
    (fn_pc = "returned" /\ fn_in.fn = "check_repo") =>
        /\ fn_out.valid <=> OnlyDangling(fn_in.stderr)
        /\ (fn_in.stderr # {} /\ ~OnlyDangling(fn_in.stderr)) =>
               fn_out.error_msg = "stderr[:200]"

\* C18: pull_repo on a directory that is missing or has no .git marker
\* returns (False, "local_repo_missing"), and check_repo on a path without the
\* marker returns invalid with the not-a-repository diagnostic; neither starts
\* or tracks a subprocess.
NoSubprocessStarted(t) ==
    /\ proc_kind'[t] = "none"
    /\ active_processes' = active_processes

C18_NoSubprocessForNonRepository ==
    [][\A t \in Tasks :
          ~HasGitMarker(dir[ident[t]]) =>
             /\ (run_pc = "pull" /\ op_pc[t] \in {"queued", "precheck"}
                     /\ op_pc'[t] \notin {"queued", "precheck"}) =>
                   (future'[t] = "local_repo_missing" /\ NoSubprocessStarted(t))
             /\ (run_pc = "check" /\ op_pc[t] = "queued" /\ op_pc'[t] # "queued") =>
                   (future'[t] = "not_git" /\ NoSubprocessStarted(t))
             /\ (run_pc = "clone" /\ op_pc[t] = "ic_enter" /\ op_pc'[t] # "ic_enter") =>
                   (op_pc'[t] = "delete" /\ NoSubprocessStarted(t))]_vars

\* C19: pull_repo never raises: it returns (True, "") or (False, r) with r in
\* the closed vocabulary of reason tags, and every failed task returned by
\* execute_parallel_pull carries one reason of that vocabulary.
PullReasons ==
    {"invalid_arguments", "canceled", "local_repo_missing", "not_git_repo",
     "remote_ref_missing", "local_changes_conflict", "unrelated_histories",
     "not_fast_forward", "network_error", "auth_error", "unknown", "exception"}

C19_PullReasonsClosed ==
    flow = "pull" =>
        /\ \A t \in Tasks :
              op_pc[t] = "done" => future[t] \in {"ok"} \cup PullReasons
        /\ \A i \in 1..Len(failed_tasks) : failed_tasks[i].reason \in PullReasons

\* C27: parse_repo_tasks gives one task for every bullet line below a group
\* header, in document order, with the name and the tag of the nearest header
\* above the line and the folder "{group} ({tag})", or "{group}" without a
\* tag, and no task for a bullet line above the first header.
HeaderAbove(content, i) ==
    {h \in 1..(i - 1) : IsGroupHeader(content[h])}

ExpectedTask(content, i) ==
    LET h == CHOOSE x \in HeaderAbove(content, i) : \A y \in HeaderAbove(content, i) : y <= x
        m == GroupHeaderMatch(content[h])
    IN  [repo_full |-> <<Owner, RepoLineMatch(content[i])>>,
         repo_name |-> RepoLineMatch(content[i]),
         group_folder |-> IF m.highland # <<>>
                          THEN REPOS_DIR \o m.group_name \o <<Paren(m.highland)>>
                          ELSE REPOS_DIR \o m.group_name,
         group_name |-> m.group_name,
         highland |-> m.highland]

C27_OneTaskPerBullet ==
    (fn_pc = "parsed") =>
        LET content == fn_in.content
            bullets == {i \in 1..Len(content) :
                           IsRepoLine(content[i]) /\ HeaderAbove(content, i) # {}}
            nth(k) == CHOOSE i \in bullets : Cardinality({j \in bullets : j <= i}) = k
        IN  /\ Len(fn_out.tasks) = Cardinality(bullets)
            /\ \A k \in 1..Cardinality(bullets) :
                  k <= Len(fn_out.tasks) => fn_out.tasks[k] = ExpectedTask(content, nth(k))

\* C25: for a manifest text that lists no repository name under two different
\* groups, parsing it, rendering the parsed groups, tags and assignments and
\* parsing the rendered text gives the same set of (repo_name, group) pairs.
Functional(pairs) == \A p, q \in pairs : p[1] = q[1] => p = q

C25_RoundTripOfFunctionalManifest ==
    (fn_pc = "reparsed" /\ Functional(Pairs(fn_out.tasks))) =>
        Pairs(fn_out.again) = Pairs(fn_out.tasks)

C25_Witness ==
    /\ fn_pc = "reparsed"
    /\ Len(fn_in.content) = MaxLines
    /\ fn_in.content[1] = <<"##", "A", "<!--", "x", "-->">>
    /\ Pairs(fn_out.tasks) = {<<"r1", <<"A">>>>, <<"r2", <<"B">>>>}
    /\ Pairs(fn_out.again) = Pairs(fn_out.tasks)

\* C25 as stated: the round trip keeps the set of pairs of every manifest text.
C25_RoundTrip ==
    (fn_pc = "reparsed") => Pairs(fn_out.again) = Pairs(fn_out.tasks)

\* C26: the text render_repo_groups_text returns does not depend on the
\* insertion order of the assignments, lists under every header the names
\* assigned to the group in sorted order, and has the header of a group
\* without names exactly when keep_empty is set.
Items(assignments) == {assignments[i] : i \in 1..Len(assignments)}

Assigned(assignments, group) ==
    {it.name : it \in {x \in Items(assignments) : x.group = group}}

BulletsBelow(text, i) ==
    {j \in (i + 1)..Len(text) : \A k \in (i + 1)..j : IsRepoLine(text[k])}

C26_RenderCanonical ==
    (fn_pc = "rendered" /\ fn_in.fn = "render_repo_groups_text") =>
        LET text == fn_out.text
            headers(g) == {i \in 1..Len(text) :
                              /\ IsGroupHeader(text[i])
                              /\ GroupHeaderMatch(text[i]).group_name = g}
        IN  /\ \A other \in RenderAssignments :
                  Items(other) = Items(fn_in.assignments) =>
                     render_repo_groups_text(fn_in.owner, fn_in.groups, other,
                                             fn_in.tags, fn_in.keep_empty) = text
            /\ \A i \in 1..(Len(text) - 1) :
                  (IsRepoLine(text[i]) /\ IsRepoLine(text[i + 1])) =>
                     RepoRank(RepoLineMatch(text[i])) < RepoRank(RepoLineMatch(text[i + 1]))
            /\ \A k \in 1..Len(fn_in.groups) :
                  LET g == fn_in.groups[k]
                  IN  /\ \A i \in headers(g) :
                            {RepoLineMatch(text[j]) : j \in BulletsBelow(text, i)}
                               = Assigned(fn_in.assignments, g)
                      /\ Assigned(fn_in.assignments, g) # {} => headers(g) # {}
                      /\ Assigned(fn_in.assignments, g) = {} =>
                            (headers(g) = {} <=> ~fn_in.keep_empty)

C26_Witness ==
    /\ fn_pc = "rendered"
    /\ fn_in.fn = "render_repo_groups_text"
    /\ fn_in.groups = << <<"B">>, <<"A">> >>
    /\ fn_in.assignments = <<[name |-> "r2", group |-> <<"A">>],
                             [name |-> "r1", group |-> <<"A">>]>>
    /\ ~fn_in.keep_empty
    /\ fn_out.text = << <<"#", "title">>, <<>>, <<"owner:", Owner>>, <<>>,
                        <<"##", "A">>, <<"-", "r1">>, <<"-", "r2">> >>

\* C30: the tasks parsed from a manifest have pairwise different
\* (repo_full, group_folder) identities, so that no two operations of a run
\* work on the same directory.
C30_TasksOwnTheirDirectory ==
    (fn_pc = "parsed") =>
        \A i, j \in 1..Len(fn_out.tasks) :
            (/\ fn_out.tasks[i].repo_full = fn_out.tasks[j].repo_full
             /\ fn_out.tasks[i].group_folder = fn_out.tasks[j].group_folder) => i = j

\* C21: apply_sync with the same names, applied again to the file the first
\* application has left, adds nothing and leaves the file as it is, whether
\* or not the file had the unclassified section before the first application.
C21_ReconcileIdempotent ==
    (fn_pc = "applied_again") =>
        /\ fn_out.added_count = 0
        /\ fn_out.raw = fn_out.first

C21_Witness ==
    /\ fn_pc = "applied_again"
    /\ unclassified_section(read_text_preserve_encoding(fn_in.raw).content).start = 0
    /\ fn_out.new_repos = <<"r2", "r3">>
    /\ fn_out.raw # fn_in.raw
    /\ fn_out.added_count = 0

\* C22: apply_sync leaves everything outside the unclassified section as it
\* was, byte for byte: the byte-order mark, the text and the line ending of
\* every other line, also in a file that mixes line endings, the blank lines,
\* and whether the file ends with a line ending.  Only a last line without
\* line ending gets one when lines are inserted behind it.
Unterminated(raw) ==
    raw.lines # <<>> /\ raw.lines[Len(raw.lines)].eol = "none"

C22_OutsideUntouched ==
    (fn_pc = "applied") =>
        LET b == fn_in.raw.lines
            a == fn_out.raw.lines
            m == Len(a) - Len(b)
        IN  /\ fn_out.raw.bom = fn_in.raw.bom
            /\ Unterminated(fn_out.raw) <=> Unterminated(fn_in.raw)
            /\ m >= 0
            /\ \E k \in 0..Len(b) :
                  /\ \A i \in 1..k :
                        /\ a[i].text = b[i].text
                        /\ a[i].eol = b[i].eol \/ (i = k /\ b[i].eol = "none" /\ m > 0)
                  /\ \A i \in (k + 1)..Len(b) : a[i + m] = b[i]

\* C23: after preview_sync and apply_sync against a remote listing every
\* remote name is assigned to exactly one group of the parsed manifest: a
\* name that was assigned keeps its group and gets no further bullet line,
\* every other remote name is in the unclassified group.
GroupsOf(ts, x) == {ts[i].group_name : i \in {j \in 1..Len(ts) : ts[j].repo_name = x}}

C23_EveryRemoteNameInOneGroup ==
    (fn_pc = "applied" /\ fn_in.fn = "preview_sync") =>
        LET before == parse_repo_tasks(read_text_preserve_encoding(fn_in.raw).content,
                                       Owner, REPOS_DIR)
            after == parse_repo_tasks(read_text_preserve_encoding(fn_out.raw).content,
                                      Owner, REPOS_DIR)
        IN  \A x \in Range(fn_in.remote) :
               /\ Cardinality(GroupsOf(after, x)) = 1
               /\ GroupsOf(before, x) # {} =>
                     /\ GroupsOf(after, x) = GroupsOf(before, x)
                     /\ Occurrences([i \in 1..Len(after) |-> after[i].repo_name], x)
                          = Occurrences([i \in 1..Len(before) |-> before[i].repo_name], x)
               /\ GroupsOf(before, x) = {} => GroupsOf(after, x) = {UNCLASSIFIED}

\* C24: add_repos_to_unclassified inserts the names of new_repos that the
\* unclassified section does not have yet, each once, as bullet lines behind
\* the last non-blank line of the section, or in a new section at the end of
\* the text, changes nothing else, and returns the number of different names
\* it has inserted.
C24_InsertsMissingNamesOnce ==
    (fn_pc = "applied") =>
        LET lines == read_text_preserve_encoding(fn_in.raw).content
            sec == unclassified_section(lines)
            ins == Range(fn_out.new_repos) \ existing_in_section(lines, sec)
            n == Cardinality(ins)
            updated == fn_out.updated_lines
            sec2 == unclassified_section(updated)
            at == IF sec.start = 0 THEN Len(lines) ELSE insert_at(lines, sec)
            extra == Len(updated) - Len(lines) - n
        IN  /\ fn_out.added_count = n
            /\ \A x \in ins :
                  Cardinality({j \in (sec2.start + 1)..sec2.end :
                                  IsRepoLine(updated[j]) /\ RepoLineMatch(updated[j]) = x}) = 1
            /\ IF sec.start = 0 /\ n > 0
               THEN /\ extra \in {1, 2}
                    /\ sec2.start = Len(lines) + extra
                    /\ sec2.end = Len(updated)
               ELSE extra = 0
            /\ \A i \in 1..at : updated[i] = lines[i]
            /\ \A i \in (at + 1)..Len(lines) : updated[i + n + extra] = lines[i]
            /\ \A i \in (Len(updated) - n + 1 - (Len(lines) - at))..(Len(updated) - (Len(lines) - at)) :
                  i >= 1 => (IsRepoLine(updated[i]) /\ RepoLineMatch(updated[i]) \in ins)

\* C28: no operation of the process registry raises.  terminate_process sends
\* no signal to a subprocess that had exited when it was called,
\* untrack_process of a subprocess that is not tracked leaves the tracked set
\* as it is, and terminate_all_tracked_processes and request_shutdown return
\* with every process of their snapshot untracked, whatever terminate(),
\* wait() and kill() have raised on the way.
C28_RegistryNeverRaises ==
    /\ fn_pc # "raised"
    /\ \A signal \in fn_out.signals : signal[1] \in fn_in.running
    /\ (fn_pc = "returned" /\ fn_in.fn = "terminate_process"
          /\ fn_in.process \notin fn_in.running) =>
             fn_out = [fn_out EXCEPT !.signals = {}, !.failed = {},
                                     !.tracked = fn_in.tracked]
    /\ (fn_pc = "returned" /\ fn_in.fn = "untrack_process") =>
          /\ fn_in.process \notin fn_in.tracked => fn_out.tracked = fn_in.tracked
          /\ \A p \in Popen \ {fn_in.process} :
                p \in fn_out.tracked <=> p \in fn_in.tracked
          /\ fn_out.signals = {}
    /\ (fn_pc = "returned"
          /\ fn_in.fn \in {"terminate_all_tracked_processes", "request_shutdown"}) =>
          /\ fn_out.tracked = {}
          /\ fn_out.processes = <<>>
          /\ fn_out.flag <=> fn_in.fn = "request_shutdown"

\* request_shutdown has returned although terminate() and kill() of p1 raised;
\* p2 had exited before the call and got no signal
C28_Witness ==
    /\ fn_pc = "returned"
    /\ fn_in.fn = "request_shutdown"
    /\ fn_in.tracked = Popen
    /\ fn_in.running = {"p1"}
    /\ {<<"p1", "terminate">>, <<"p1", "wait">>, <<"p1", "kill">>} \subseteq fn_out.failed
    /\ fn_out.signals = {}
    /\ fn_out.tracked = {}

\* C29: a batch run clears the flag as its first step, before it parses the
\* manifest, submits a task or starts a subprocess, so the run goes on with
\* the flag cleared whatever an earlier run has left; the flag is set only by
\* the first statement of request_shutdown, and once set it is reset by no
\* step other than a batch run's initial clear_shutdown_request.
C29_FlagLifecycle ==
    /\ [](run_pc = "launched" =>
            /\ orch_pc = "idle"
            /\ tasks = <<>>
            /\ active_processes = {}
            /\ result.status = "none"
            /\ \A t \in Tasks : op_pc[t] = "idle" /\ future[t] = "none")
    /\ [][run_pc = "launched" =>
            /\ run_pc' \in {"launched", "cleared"}
            /\ run_pc' = "cleared" => ~shutdown_event']_vars
    /\ [][(shutdown_event /\ ~shutdown_event') =>
            (run_pc = "launched" /\ run_pc' = "cleared")]_vars
    /\ [][(~shutdown_event /\ shutdown_event') =>
            (sd_pc = "idle" /\ sd_pc' = "set")]_vars

\* the flag was set while the run's operations were waiting and is still set
\* after request_shutdown and the run have returned
C29_Witness ==
    /\ run_pc = "done"
    /\ sd_pc = "returned"
    /\ sd_flag_at_return
    /\ shutdown_event
    /\ \E w \in woke : w.flag /\ w.outcome = "canceled"
    /\ \E w \in woke : ~w.flag

\* C39: when apply_sync adds no name, because new_repos is empty or because
\* the unclassified section has every name of it, it does not write the file:
\* the byte-order mark, every line and every line ending are as they were, and
\* the call reports success.
C39_NothingAddedNothingWritten ==
    (fn_pc = "applied"
       /\ Range(fn_out.new_repos) \subseteq
            existing_in_section(read_text_preserve_encoding(fn_in.raw).content,
                unclassified_section(read_text_preserve_encoding(fn_in.raw).content))) =>
        /\ fn_out.added_count = 0
        /\ ~fn_out.written
        /\ fn_out.raw = fn_in.raw
        /\ fn_out.success

\* nothing to add to a file that a write would have changed: mixed line
\* endings and a blank last line
C39_Witness ==
    /\ fn_pc = "applied"
    /\ fn_out.new_repos = <<"r1">>
    /\ fn_out.added_count = 0
    /\ ~fn_out.written
    /\ fn_in.raw.bom
    /\ Len(fn_in.raw.lines) = MaxBodyLines + 1
    /\ fn_in.raw.lines[1].eol = "CRLF"
    /\ fn_in.raw.lines[2].eol = "LF"
    /\ fn_in.raw.lines[MaxBodyLines + 1].text = <<>>
    /\ fn_out.raw = fn_in.raw

\* the same with an empty list of new names
C39_WitnessEmptyList ==
    /\ fn_pc = "applied"
    /\ fn_in.fn = "preview_sync"
    /\ fn_out.new_repos = <<>>
    /\ ~fn_out.written
    /\ fn_in.raw.lines[1].eol = "CRLF"
    /\ \E i \in 2..Len(fn_in.raw.lines) : fn_in.raw.lines[i].eol = "LF"

\* C31: a subprocess is in the tracked set only between its
\* start_tracked_process and the end of the wait of the operation that
\* started it.  An entry enters the set only in start_tracked_process, every
\* tracked entry belongs to an operation that is waiting for that subprocess,
\* and the set is empty whenever no operation is in flight: before the first
\* operation of a run, between the phases, and when the run has ended.
InFlight(t) == op_pc[t] \notin {"idle", "queued", "done"}

C31_TrackedOnlyWhileInFlight ==
    /\ [](\A p \in active_processes :
            /\ op_pc[p[1]] \in {"waiting", "ic_waiting"}
            /\ proc_kind[p[1]] = p[2])
    /\ []((\A t \in Tasks : ~InFlight(t)) => active_processes = {})
    /\ [](run_pc \in {"launched", "cleared", "done", "failed"} => active_processes = {})
    /\ [][\A p \in active_processes' \ active_processes :
            /\ op_pc[p[1]] \in {"spawned", "ic_spawned"}
            /\ op_pc'[p[1]] \in {"waiting", "ic_waiting"}]_vars

\* a clone run has ended after operations left by success, by a non-zero exit
\* code and by cancellation, and after terminate_all_tracked_processes took a
\* snapshot of two tracked subprocesses
C31_Witness ==
    /\ run_pc = "done"
    /\ flow = "clone_and_check"
    /\ Cardinality(sd_at_call) = 2
    /\ sd_pc = "returned"
    /\ \E w \in woke : w.outcome = "canceled"
    /\ active_processes = {}

\* C32: run_clone_and_check hands to the check phase exactly the tasks whose
\* clone the clone phase has tallied as a success, each once, and no task
\* whose clone failed, was cancelled or was never collected; it skips the
\* check phase when no clone succeeded.
C32_CheckExactlyTheClonedTasks ==
    /\ [][(run_pc = "cloned" /\ run_pc' = "check") =>
            /\ \A t \in Tasks : t \in Range(tasks') <=> t \in clone_ok
            /\ Len(tasks') = Cardinality(clone_ok)]_vars
    /\ [][(run_pc = "cloned" /\ clone_ok = {}) => run_pc' # "check"]_vars
    /\ [][(run_pc = "cloned" /\ clone_ok # {}) => run_pc' \in {"cloned", "check"}]_vars

\* C33: clone_repo starts the clone subprocess only when nothing exists at
\* target_folder/repo_name: what exists there and is not a valid repository
\* is deleted first, and when the deletion fails clone_repo returns failure
\* and starts no clone subprocess.
C33_CloneOnlyIntoAbsentTarget ==
    /\ [][\A t \in Tasks :
            (spawned_clone'[t] /\ ~spawned_clone[t]) => ~DirExists(dir[ident[t]])]_vars
    /\ [][\A t \in Tasks :
            (op_pc[t] = "delete" /\ op_pc'[t] # "delete") =>
               \/ /\ ~DirExists(dir'[ident[t]])
                  /\ op_pc'[t] = "prepare"
               \/ /\ op_pc'[t] = "done"
                  /\ future'[t] = "failed"
                  /\ ~spawned_clone'[t]
                  /\ dir' = dir]_vars

\* C34: get_repo_url returns an address whatever the probe does and no
\* exception of it reaches clone_repo: the secure-shell address exactly when
\* the probe completed and its output contains the confirmation, the HTTPS
\* address in every other case, a failed probe included.
C34_AlwaysAnAddress ==
    (fn_pc # "call") =>
        LET ssh == <<"git@github.com:">> \o fn_in.repo_full \o <<".git">>
            https == <<"https://github.com/">> \o fn_in.repo_full \o <<".git">>
            confirms == /\ fn_in.probe.kind = "completed"
                        /\ Fragment("successfully authenticated", "lower")
                              \in fn_in.probe.stdout \cup fn_in.probe.stderr
        IN  /\ fn_pc # "clone_repo_raised"
            /\ fn_out.raised = "none"
            /\ fn_out.url = IF confirms THEN ssh ELSE https

\* C35: no clone, pull or fsck subprocess is started while the cancellation
\* flag is set, and once request_shutdown() has returned no subprocess of the
\* run is alive.
C35_NoSubprocessAfterCancellation ==
    /\ [][\A t \in Tasks :
            (proc_state'[t] = "running" /\ proc_state[t] # "running") =>
                ~shutdown_event]_vars
    /\ [](sd_pc = "returned" => \A t \in Tasks : proc_state[t] # "running")

\* C36: a request_shutdown() made after the run was launched is honoured by
\* that run: from the request on the flag is set, the run's initial
\* clear_shutdown_request() does not erase it, and no operation of the run
\* gets past its entry test once shutdown has been requested.
C36_RequestAfterLaunchIsHonoured ==
    /\ [](sd_pc # "idle" => shutdown_event)
    /\ [][(sd_pc # "idle" /\ run_pc = "launched" /\ run_pc' # "launched") =>
            shutdown_event']_vars
    /\ [][\A t \in Tasks :
            (sd_pc # "idle" /\ op_pc[t] = "queued" /\ op_pc'[t] # "queued") =>
                (op_pc'[t] = "done" /\ future'[t] = "canceled")]_vars

\* C37: when cancellation is requested while clone_repo runs its incremental
\* integrity check on an existing repository, clone_repo returns failure
\* without deleting the directory and without starting a clone subprocess.
C37_CancelledCheckKeepsTheCopy ==
    /\ [][\A t \in Tasks :
         (op_pc[t] \in {"ic_enter", "ic_spawned", "ic_waiting"} /\ shutdown_event
            /\ op_pc'[t] \notin {"ic_enter", "ic_spawned", "ic_waiting"}) =>
               /\ op_pc'[t] = "done"
               /\ future'[t] # "ok"
               /\ dir'[ident[t]] = dir[ident[t]]
               /\ ~spawned_clone'[t]]_vars
    /\ [](\A w \in woke :
            (w.proc = "fsck" /\ w.outcome = "canceled") =>
                (~removed_dir[w.task] /\ ~spawned_clone[w.task]))

\* C38: once request_shutdown() has been called during a run, the run's
\* orchestrators return and the run ends, under fair scheduling of the
\* program's threads and without any clone or pull subprocess exiting by
\* itself.
C38_ShutdownEndsTheRun ==
    (sd_pc # "idle") ~> (run_pc \in {"done", "failed"})

====
